---- MODULE Spec2Model ----
(***************************************************************************)
(* Skill-evaluation and mastery-tracking pipeline of hikkinomore-buddy-    *)
(* server: src/src/skills.py, src/src/agents/skill.py, src/src/agents/     *)
(* chat.py, src/src/utils.py, src/src/db.py.                               *)
(*                                                                         *)
(* Scores are Python floats.  They are modelled as IEEE-754 binary64       *)
(* values with round-to-nearest-even arithmetic, so that equalities and    *)
(* threshold comparisons come out as they do in CPython.                   *)
(***************************************************************************)
EXTENDS Integers, Sequences, FiniteSets, TLC

VARIABLES
    scores,        \* argument of the scoring functions: <<score, timestamp>> tuples
    score_out,     \* <<what the scoring functions returned for it>>, or NoResult
    skill_history, \* what db.get_skill_history returned to get_user_skill_summary
    summary_out,   \* <<the UserSkillSummary returned for it>>, or NoResult
    messages,          \* ctx.messages of the chat agent's run
    skill_evaluations, \* rows of the skill_evaluations table, in insertion order
    evaluator_calls,   \* number of runs of the skill judge agent
    judged,            \* <<what the last judge_conversation call did>>, or NoResult
    now,               \* the clock, in ticks of 1 / TicksPerSecond seconds
    append_calls,      \* the tick of each db.add_skill_evaluation call, in call order
    history_out,       \* <<what the last db.get_skill_history call did>>, or NoResult
    sessions,          \* rows of the sessions table, in insertion order
    message_rows,      \* rows of the messages table, in insertion order
    message_calls,     \* the db.add_messages calls made so far, in call order
    ensuring,          \* the db.ensure_session calls made so far, each with its position
    users,             \* rows of the users table, in insertion order
    requests,          \* the POST /chat requests made so far, each with its position
    raw_history,       \* message_history of a convert_model_messages_to_conversation call
    extracted          \* <<what the call returned, with its other arguments>>, or NoResult

scoreVars == <<scores, score_out>>
summaryVars == <<skill_history, summary_out>>
judgeVars == <<messages, skill_evaluations, evaluator_calls, judged>>
storeVars == <<now, append_calls, history_out>>
sessionVars == <<sessions, message_rows, message_calls, ensuring, users, requests>>
extractVars == <<raw_history, extracted>>
vars == <<scoreVars, summaryVars, judgeVars, storeVars, sessionVars, extractVars>>

NoResult == <<>>

IdleStore == now = 0 /\ append_calls = <<>> /\ history_out = NoResult
IdleSessions ==
    /\ sessions = <<>> /\ message_rows = <<>> /\ message_calls = <<>> /\ ensuring = <<>>
    /\ users = <<>> /\ requests = <<>>
IdleExtract == raw_history = <<>> /\ extracted = NoResult

(***************************************************************************)
(* Python floats are IEEE-754 binary64.  TLC's integers are 32 bits wide,  *)
(* so a 53-bit significand is kept as a little-endian sequence of 14-bit   *)
(* limbs; <<>> is zero and the top limb of a natural is never 0.           *)
(***************************************************************************)
LimbBits == 14
LimbBase == 2^LimbBits
MantissaBits == 53

Limb(w, j) == IF j >= 1 /\ j <= Len(w) THEN w[j] ELSE 0

RECURSIVE BigNorm(_)
BigNorm(w) ==
    IF w = <<>> THEN <<>>
    ELSE IF w[Len(w)] = 0 THEN BigNorm(SubSeq(w, 1, Len(w) - 1))
    ELSE w

\* the limbs of the natural whose column sums are cols (a column may exceed a
\* limb, or be negative: a borrow), carry c so far
RECURSIVE Carry(_, _, _, _)
Carry(cols, i, c, out) ==
    IF i > Len(cols) THEN BigNorm(IF c = 0 THEN out ELSE Append(out, c))
    ELSE Carry(cols, i + 1, (cols[i] + c) \div LimbBase,
               Append(out, (cols[i] + c) % LimbBase))

Longer(a, b) == IF Len(a) >= Len(b) THEN Len(a) ELSE Len(b)

BigAdd(a, b) == Carry([i \in 1..Longer(a, b) |-> Limb(a, i) + Limb(b, i)], 1, 0, <<>>)

\* a - b for a >= b
BigSub(a, b) == Carry([i \in 1..Longer(a, b) |-> Limb(a, i) - Limb(b, i)], 1, 0, <<>>)

\* a * k for 0 <= k < LimbBase
BigMulSmall(a, k) == Carry([i \in 1..Len(a) |-> a[i] * k], 1, 0, <<>>)

\* the product of two four-limb significands
BigMul4(a, b) ==
    Carry(<<a[1] * b[1],
            a[1] * b[2] + a[2] * b[1],
            a[1] * b[3] + a[2] * b[2] + a[3] * b[1],
            a[1] * b[4] + a[2] * b[3] + a[3] * b[2] + a[4] * b[1],
            a[2] * b[4] + a[3] * b[3] + a[4] * b[2],
            a[3] * b[4] + a[4] * b[3],
            a[4] * b[4]>>, 1, 0, <<>>)

\* -1, 0, 1 as a < b, a = b, a > b (both normalised)
RECURSIVE BigCmpFrom(_, _, _)
BigCmpFrom(a, b, i) ==
    IF i = 0 THEN 0
    ELSE IF a[i] < b[i] THEN -1
    ELSE IF a[i] > b[i] THEN 1
    ELSE BigCmpFrom(a, b, i - 1)

BigCmp(a, b) ==
    IF Len(a) < Len(b) THEN -1
    ELSE IF Len(a) > Len(b) THEN 1
    ELSE BigCmpFrom(a, b, Len(a))

\* limb i of floor(w * 2^s), s of either sign
ShiftedLimb(w, s, i) ==
    ((Limb(w, i - (s \div LimbBits)) * 2^(s % LimbBits)) % LimbBase)
    + (Limb(w, i - (s \div LimbBits) - 1) \div 2^(LimbBits - (s % LimbBits)))

\* floor(w * 2^s) as n limbs (it must fit)
RECURSIVE ShiftedFrom(_, _, _, _)
ShiftedFrom(w, s, i, out) ==
    IF i = 0 THEN out
    ELSE ShiftedFrom(w, s, i - 1, <<ShiftedLimb(w, s, i)>> \o out)

BigShift(w, s, n) == BigNorm(ShiftedFrom(w, s, n, <<>>))

RECURSIVE IntBitLen(_)
IntBitLen(n) == IF n = 0 THEN 0 ELSE 1 + IntBitLen(n \div 2)

BigBitLen(w) == IF w = <<>> THEN 0 ELSE LimbBits * (Len(w) - 1) + IntBitLen(w[Len(w)])

\* bit k of w (bit 0 is the lowest)
BitAt(w, k) == (Limb(w, (k \div LimbBits) + 1) \div 2^(k % LimbBits)) % 2

\* some bit of w below bit k is set
LowBitsSet(w, k) ==
    \/ \E i \in 1..(k \div LimbBits) : Limb(w, i) # 0
    \/ Limb(w, (k \div LimbBits) + 1) % 2^(k % LimbBits) # 0

\* quotient and remainder of a by 0 < d < LimbBase, from the top limb down
RECURSIVE BigDivSmallFrom(_, _, _, _, _)
BigDivSmallFrom(a, d, i, r, q) ==
    IF i = 0 THEN [q |-> BigNorm(q), r |-> r]
    ELSE BigDivSmallFrom(a, d, i - 1, (r * LimbBase + a[i]) % d,
                         <<(r * LimbBase + a[i]) \div d>> \o q)

BigDivSmall(a, d) == BigDivSmallFrom(a, d, Len(a), 0, <<>>)

RECURSIVE Zeros(_)
Zeros(n) == IF n = 0 THEN <<>> ELSE <<0>> \o Zeros(n - 1)

\* the largest d in lo..hi with b * d <= a (b * lo <= a), by bisection
RECURSIVE BigQuotDigit(_, _, _, _)
BigQuotDigit(a, b, lo, hi) ==
    IF lo = hi THEN lo
    ELSE IF BigCmp(BigMulSmall(b, (lo + hi + 1) \div 2), a) <= 0
    THEN BigQuotDigit(a, b, (lo + hi + 1) \div 2, hi)
    ELSE BigQuotDigit(a, b, lo, (lo + hi + 1) \div 2 - 1)

\* quotient and remainder of a by b # <<>>, one limb of the quotient at a time
\* from limb k down (a < b * LimbBase^(k+1))
RECURSIVE BigDivFrom(_, _, _, _)
BigDivFrom(a, b, k, q) ==
    IF k < 0 THEN [q |-> BigNorm(q), r |-> a]
    ELSE LET bs == Zeros(k) \o b
             d  == BigQuotDigit(a, bs, 0, LimbBase - 1)
         IN  BigDivFrom(BigSub(a, BigMulSmall(bs, d)), b, k - 1, <<d>> \o q)

(***************************************************************************)
(* binary64 values in the normal range: neg, a significand man of exactly  *)
(* 53 bits (<<>> for zero) and an exponent exp; the value is               *)
(* (-1)^neg * man * 2^exp.  Arithmetic rounds to nearest, ties to even.    *)
(***************************************************************************)
FZero == [neg |-> FALSE, man |-> <<>>, exp |-> 0]

\* the binary64 nearest to (-1)^neg * w * 2^e
FRound(neg, w, e) ==
    LET drop == BigBitLen(w) - MantissaBits
        q    == BigShift(w, -drop, 4)
        up   == /\ drop > 0
                /\ BitAt(w, drop - 1) = 1
                /\ (LowBitsSet(w, drop - 1) \/ q[1] % 2 = 1)
        q2   == IF up THEN BigAdd(q, <<1>>) ELSE q
    IN  IF w = <<>> THEN FZero
        ELSE IF BigBitLen(q2) > MantissaBits
        THEN [neg |-> neg, man |-> BigShift(q2, -1, 4), exp |-> e + drop + 1]
        ELSE [neg |-> neg, man |-> q2, exp |-> e + drop]

FNeg(x) == IF x.man = <<>> THEN x ELSE [x EXCEPT !.neg = ~x.neg]

FMul(x, y) ==
    IF x.man = <<>> \/ y.man = <<>> THEN FZero
    ELSE FRound(x.neg # y.neg, BigMul4(x.man, y.man), x.exp + y.exp)

\* x + y where x.exp >= y.exp, neither zero.  More than 56 binary places apart,
\* y is below a sixteenth of x's last place and the sum rounds to x.
FAddOrdered(x, y) ==
    LET mx == BigShift(x.man, x.exp - y.exp, 8) IN
    IF x.exp - y.exp > 56 THEN x
    ELSE IF x.neg = y.neg THEN FRound(x.neg, BigAdd(mx, y.man), y.exp)
    ELSE IF BigCmp(mx, y.man) >= 0 THEN FRound(x.neg, BigSub(mx, y.man), y.exp)
    ELSE FRound(y.neg, BigSub(y.man, mx), y.exp)

FAdd(x, y) ==
    IF x.man = <<>> THEN y
    ELSE IF y.man = <<>> THEN x
    ELSE IF x.exp >= y.exp THEN FAddOrdered(x, y)
    ELSE FAddOrdered(y, x)

FSub(x, y) == FAdd(x, FNeg(y))

\* x / y for y # 0
FDiv(x, y) ==
    IF x.man = <<>> THEN FZero
    ELSE LET dv  == BigDivFrom(BigShift(x.man, 58, 8), y.man, 4, <<>>)
             stk == IF dv.r = <<>> THEN <<>> ELSE <<1>>
         IN  FRound(x.neg # y.neg, BigAdd(BigShift(dv.q, 1, 6), stk), x.exp - y.exp - 59)

\* -1, 0, 1 as |x| < |y|, |x| = |y|, |x| > |y|
FMagCmp(x, y) ==
    IF x.man = <<>> THEN (IF y.man = <<>> THEN 0 ELSE -1)
    ELSE IF y.man = <<>> THEN 1
    ELSE IF x.exp < y.exp THEN -1
    ELSE IF x.exp > y.exp THEN 1
    ELSE BigCmp(x.man, y.man)

\* -1, 0, 1 as x < y, x = y, x > y
FCmp(x, y) ==
    IF x.neg /\ ~y.neg THEN -1
    ELSE IF ~x.neg /\ y.neg THEN 1
    ELSE IF x.neg THEN FMagCmp(y, x)
    ELSE FMagCmp(x, y)

FGe(x, y) == FCmp(x, y) >= 0

\* the float the decimal literal n/d denotes (|n|, d < LimbBase, d > 0)
FLit(n, d) ==
    LET a   == IF n < 0 THEN -n ELSE n
        dv  == BigDivSmall(BigShift(BigNorm(<<a>>), 75, 7), d)
        stk == IF dv.r = 0 THEN <<>> ELSE <<1>>
    IN  FRound(n < 0, BigAdd(BigShift(dv.q, 1, 7), stk), -76)

(***************************************************************************)
(* src/src/agents/skill.py: configuration constants                        *)
(***************************************************************************)
MASTERY_THRESHOLD == FLit(8, 10)
\* a weight of 0.5 for the newest score
EVEN_ALPHA == FLit(5, 10)

RECENCY_ALPHA == FLit(7, 10)
MIN_SCORES_FOR_MASTERY == 3

\* the keys of the SOCIAL_SKILLS dictionary, in its order
SOCIAL_SKILLS ==
    <<"active_listening", "assertiveness", "empathy", "conversation_initiation",
      "conflict_resolution", "emotional_regulation", "social_awareness",
      "encouragement", "boundary_setting", "small_talk">>

\* Python's None where a str is expected (no str of the model is spelled so),
\* and where a float is expected
None == "<None>"
NoFloat == <<>>

(***************************************************************************)
(* src/src/skills.py: the scoring functions.  An observation is a tuple    *)
(* <<s, t>>: s is the score written in tenths (the float is Tenths[s]),    *)
(* t the timestamp.  One unit of t is 100 days.                            *)
(***************************************************************************)
Tenths == [n \in -10..10 |-> FLit(n, 10)]
FOne == FLit(1, 1)

\* a score is written in tenths, or in hundredths when between two tenths
Hundredths == [n \in {71, 72} |-> FLit(n, 100)]

ScoreOf(obs) == IF obs[1] \in DOMAIN Hundredths THEN Hundredths[obs[1]] ELSE Tenths[obs[1]]
TimeOf(obs) == obs[2]

\* sorted(scores, key=lambda x: x[1]): stable, ascending by timestamp
RECURSIVE InsertByTime(_, _)
InsertByTime(sorted, obs) ==
    IF sorted = <<>> THEN <<obs>>
    ELSE IF TimeOf(sorted[Len(sorted)]) <= TimeOf(obs) THEN Append(sorted, obs)
    ELSE Append(InsertByTime(SubSeq(sorted, 1, Len(sorted) - 1), obs), sorted[Len(sorted)])

Unsorted(seq) == seq

RECURSIVE SortedByTime(_)
SortedByTime(seq) ==
    IF seq = <<>> THEN <<>>
    ELSE InsertByTime(SortedByTime(SubSeq(seq, 1, Len(seq) - 1)), seq[Len(seq)])

RECURSIVE FoldWeightedFromZero(_, _, _)
FoldWeightedFromZero(sorted, i, alpha) ==
    IF i = 0 THEN FZero
    ELSE FAdd(FMul(alpha, ScoreOf(sorted[i])),
              FMul(FSub(FOne, alpha), FoldWeightedFromZero(sorted, i - 1, alpha)))

\* weighted_score = score + (1 - alpha) * weighted_score
RECURSIVE FoldWeightedUnscaled(_, _, _)
FoldWeightedUnscaled(sorted, i, alpha) ==
    IF i = 1 THEN ScoreOf(sorted[1])
    ELSE FAdd(ScoreOf(sorted[i]),
              FMul(FSub(FOne, alpha), FoldWeightedUnscaled(sorted, i - 1, alpha)))

\* the loop of calculate_weighted_score over sorted_scores[1:i]
RECURSIVE FoldWeighted(_, _, _)
FoldWeighted(sorted, i, alpha) ==
    IF i = 1 THEN ScoreOf(sorted[1])
    ELSE FAdd(FMul(alpha, ScoreOf(sorted[i])),
              FMul(FSub(FOne, alpha), FoldWeighted(sorted, i - 1, alpha)))

calculate_weighted_score(scs) ==
    IF scs = <<>> THEN FZero
    ELSE FoldWeighted(SortedByTime(scs), Len(scs), RECENCY_ALPHA)

\* max(min_weight, math.exp(-days_ago / time_decay_days)) with min_weight 0.1 and
\* time_decay_days 30: exp(-0.0) is 1.0, and for days_ago >= 100 the exponential
\* is below 0.1
TimeWeight(gap) == IF gap = 0 THEN FOne ELSE Tenths[1]

RECURSIVE WeightedSum(_, _, _)
WeightedSum(sorted, i, latest) ==
    IF i = 0 THEN FZero
    ELSE FAdd(WeightedSum(sorted, i - 1, latest),
              FMul(ScoreOf(sorted[i]), TimeWeight(latest - TimeOf(sorted[i]))))

RECURSIVE TotalWeight(_, _, _)
TotalWeight(sorted, i, latest) ==
    IF i = 0 THEN FZero
    ELSE FAdd(TotalWeight(sorted, i - 1, latest), TimeWeight(latest - TimeOf(sorted[i])))

calculate_time_weighted_score(scs) ==
    IF scs = <<>> THEN FZero
    ELSE IF Len(scs) = 1 THEN ScoreOf(scs[1])
    ELSE LET sorted == SortedByTime(scs)
             latest == TimeOf(sorted[Len(sorted)])
             total  == TotalWeight(sorted, Len(sorted), latest)
         IN  IF FCmp(total, FZero) > 0
             THEN FDiv(WeightedSum(sorted, Len(sorted), latest), total)
             ELSE FZero

is_skill_mastered_unguarded(scs) == FGe(calculate_weighted_score(scs), MASTERY_THRESHOLD)

is_skill_mastered_strict(scs) ==
    IF Len(scs) < MIN_SCORES_FOR_MASTERY THEN FALSE
    ELSE FCmp(calculate_weighted_score(scs), MASTERY_THRESHOLD) > 0

is_skill_mastered(scs) ==
    IF Len(scs) < MIN_SCORES_FOR_MASTERY THEN FALSE
    ELSE FGe(calculate_weighted_score(scs), MASTERY_THRESHOLD)

is_skill_mastered_time_aware(scs, use_time_weighting) ==
    IF Len(scs) < MIN_SCORES_FOR_MASTERY THEN FALSE
    ELSE IF use_time_weighting
    THEN FGe(calculate_time_weighted_score(scs), MASTERY_THRESHOLD)
    ELSE FGe(calculate_weighted_score(scs), MASTERY_THRESHOLD)

(***************************************************************************)
(* src/src/skills.py: get_user_skill_summary.  An evaluation is a record   *)
(* [skill_type, score, timestamp] with the score in tenths.                *)
(***************************************************************************)
\* the (score, timestamp) tuples appended for one skill type, and those of a
\* loop that also takes the evaluations without a skill type
RECURSIVE ScoresOfOrNone(_, _)
ScoresOfOrNone(history, skill_type) ==
    IF history = <<>> THEN <<>>
    ELSE LET evaluation == history[Len(history)]
             earlier    == ScoresOfOrNone(SubSeq(history, 1, Len(history) - 1), skill_type)
         IN  IF evaluation.skill_type \in {skill_type, None}
             THEN Append(earlier, <<evaluation.score, evaluation.timestamp>>)
             ELSE earlier

RECURSIVE ScoresOf(_, _)
ScoresOf(history, skill_type) ==
    IF history = <<>> THEN <<>>
    ELSE LET evaluation == history[Len(history)]
             earlier    == ScoresOf(SubSeq(history, 1, Len(history) - 1), skill_type)
         IN  IF evaluation.skill_type = skill_type
             THEN Append(earlier, <<evaluation.score, evaluation.timestamp>>)
             ELSE earlier

\* the dictionary built by the grouping loop
scores_by_skill(history) ==
    [skill_type \in {history[i].skill_type : i \in 1..Len(history)} \ {None}
        |-> ScoresOf(history, skill_type)]

\* d.get(key, [])
GetOrEmpty(d, key) == IF key \in DOMAIN d THEN d[key] ELSE <<>>

\* the SkillStatus built for one skill of the taxonomy from its scores
SkillStatus(scs) ==
    IF scs # <<>>
    THEN [weighted_score    |-> calculate_weighted_score(scs),
          is_mastered       |-> is_skill_mastered(scs),
          total_evaluations |-> Len(scs),
          latest_score      |-> ScoreOf(scs[Len(scs)])]
    ELSE [weighted_score    |-> FZero,
          is_mastered       |-> FALSE,
          total_evaluations |-> 0,
          latest_score      |-> NoFloat]

\* d[key] = value
DictSet(d, key, value) ==
    [k \in DOMAIN d \cup {key} |-> IF k = key THEN value ELSE d[k]]

EmptyDict == [k \in {} |-> <<>>]

RECURSIVE SummaryLoopCountingAll(_, _)
SummaryLoopCountingAll(by_skill, n) ==
    IF n = 0
    THEN [skill_details |-> EmptyDict, mastered_count |-> 0, in_progress_count |-> 0]
    ELSE LET before == SummaryLoopCountingAll(by_skill, n - 1)
             status == SkillStatus(GetOrEmpty(by_skill, SOCIAL_SKILLS[n]))
         IN  [skill_details     |-> DictSet(before.skill_details, SOCIAL_SKILLS[n], status),
              mastered_count    |-> before.mastered_count
                                    + (IF status.is_mastered THEN 1 ELSE 0),
              in_progress_count |-> before.in_progress_count
                                    + (IF ~status.is_mastered THEN 1 ELSE 0)]

\* skill_details and the two counters after the first n skills of SOCIAL_SKILLS
RECURSIVE SummaryLoop(_, _)
SummaryLoop(by_skill, n) ==
    IF n = 0
    THEN [skill_details |-> EmptyDict, mastered_count |-> 0, in_progress_count |-> 0]
    ELSE LET before == SummaryLoop(by_skill, n - 1)
             status == SkillStatus(GetOrEmpty(by_skill, SOCIAL_SKILLS[n]))
         IN  [skill_details     |-> DictSet(before.skill_details, SOCIAL_SKILLS[n], status),
              mastered_count    |-> before.mastered_count
                                    + (IF status.is_mastered THEN 1 ELSE 0),
              in_progress_count |-> before.in_progress_count
                                    + (IF ~status.is_mastered /\ status.total_evaluations > 0
                                       THEN 1 ELSE 0)]

RECURSIVE GroupedLoop(_, _)
GroupedLoop(by_skill, keys) ==
    IF keys = {} THEN EmptyDict
    ELSE LET k == CHOOSE x \in keys : TRUE
         IN  DictSet(GroupedLoop(by_skill, keys \ {k}), k, SkillStatus(by_skill[k]))

\* a loop over the grouped skill types on top of the loop over SOCIAL_SKILLS
SummaryOverGrouped(history) ==
    LET by_skill == scores_by_skill(history)
        looped   == SummaryLoop(by_skill, Len(SOCIAL_SKILLS))
        grouped  == GroupedLoop(by_skill, DOMAIN by_skill)
    IN  [total_skills       |-> Len(SOCIAL_SKILLS),
         mastered_skills    |-> looped.mastered_count,
         skills_in_progress |-> looped.in_progress_count,
         skill_details      |-> [k \in DOMAIN looped.skill_details \cup DOMAIN grouped |->
                                    IF k \in DOMAIN grouped THEN grouped[k]
                                    ELSE looped.skill_details[k]]]

get_user_skill_summary(history) ==
    LET looped == SummaryLoop(scores_by_skill(history), Len(SOCIAL_SKILLS)) IN
    [total_skills       |-> Len(SOCIAL_SKILLS),
     mastered_skills    |-> looped.mastered_count,
     skills_in_progress |-> looped.in_progress_count,
     skill_details      |-> looped.skill_details]

(***************************************************************************)
(* src/src/utils.py: convert_model_messages_to_conversation.               *)
(* A str that the code takes apart is a sequence of characters.  A Python  *)
(* value of varying type is a record with one field naming the type:       *)
(* [str |-> characters], [list |-> items], [obj |-> class name],           *)
(* [none |-> TRUE] for None.  A ModelMessage is [kind, parts] with kind    *)
(* "request" (ModelRequest) or "response" (ModelResponse); a part is       *)
(* [part_kind, content, timestamp].                                        *)
(***************************************************************************)
PyStr(chars) == [str |-> chars]
PyList(items) == [list |-> items]
PyObj(class) == [obj |-> class]
PyNone == [none |-> TRUE]

IsStr(v) == "str" \in DOMAIN v
IsNone(v) == "none" \in DOMAIN v

Whitespace == {" ", "\n", "\t"}

\* str.strip()
RECURSIVE StripLeft(_)
StripLeft(chars) ==
    IF chars # <<>> /\ Head(chars) \in Whitespace THEN StripLeft(Tail(chars)) ELSE chars

RECURSIVE StripRight(_)
StripRight(chars) ==
    IF chars # <<>> /\ chars[Len(chars)] \in Whitespace
    THEN StripRight(SubSeq(chars, 1, Len(chars) - 1))
    ELSE chars

Strip(chars) == StripRight(StripLeft(chars))

\* sep.join(strs)
RECURSIVE Join(_, _)
Join(sep, strs) ==
    IF strs = <<>> THEN <<>>
    ELSE IF Len(strs) = 1 THEN strs[1]
    ELSE strs[1] \o sep \o Join(sep, Tail(strs))

\* seq[start:] for an int start of either sign
SliceFrom(seq, start) ==
    LET from == IF start < 0
                THEN (IF Len(seq) + start < 0 THEN 0 ELSE Len(seq) + start)
                ELSE (IF start > Len(seq) THEN Len(seq) ELSE start)
    IN  SubSeq(seq, from + 1, Len(seq))

\* message_history[:recent_messages]: the first records instead of the last
FirstMessages(message_history, recent_messages) ==
    IF recent_messages # <<>> /\ Len(message_history) >= recent_messages[1]
    THEN SubSeq(message_history, 1, recent_messages[1])
    ELSE message_history

\* messages_to_process; recent_messages is <<n>>, or <<>> for None
MessagesToProcess(message_history, recent_messages) ==
    IF recent_messages # <<>>
    THEN (IF Len(message_history) >= recent_messages[1]
          THEN SliceFrom(message_history, -recent_messages[1])
          ELSE message_history)
    ELSE message_history

\* text_parts of a multimodal user prompt
RECURSIVE TextParts(_)
TextParts(items) ==
    IF items = <<>> THEN <<>>
    ELSE IF IsStr(Head(items)) THEN <<Head(items).str>> \o TextParts(Tail(items))
    ELSE TextParts(Tail(items))

\* content of a user-prompt part
UserPromptContent(raw_content) ==
    IF IsStr(raw_content) THEN raw_content
    ELSE IF "list" \in DOMAIN raw_content /\ raw_content.list # <<>>
         THEN (IF TextParts(raw_content.list) # <<>>
               THEN PyStr(Join(<<" ">>, TextParts(raw_content.list)))
               ELSE PyNone)
         ELSE PyNone

\* "if content": any non-empty str, whitespace included
HasAnyContent(content) == IsStr(content) /\ content.str # <<>>

\* "if content and content.strip()"
HasContent(content) ==
    IsStr(content) /\ content.str # <<>> /\ Strip(content.str) # <<>>

\* the message-level default kept for every part: role = "user"
TurnWithDefaultRole(role, part, content) ==
    IF HasContent(content)
    THEN <<[role |-> "user", content |-> content.str, timestamp |-> part.timestamp]>>
    ELSE <<>>

Turn(role, part, content) ==
    IF HasContent(content)
    THEN <<[role |-> role, content |-> content.str, timestamp |-> part.timestamp]>>
    ELSE <<>>

\* tool parts kept as turns of role "tool" when skip_tool_messages is false
PartTurnWithTools(part, skip_system_messages, skip_tool_messages) ==
    IF part.part_kind = "system-prompt"
    THEN (IF skip_system_messages THEN <<>> ELSE Turn("system", part, part.content))
    ELSE IF part.part_kind = "user-prompt"
    THEN Turn("user", part, UserPromptContent(part.content))
    ELSE IF part.part_kind = "text"
    THEN Turn("assistant", part, part.content)
    ELSE IF part.part_kind \in {"tool-call", "tool-return", "retry-prompt"}
    THEN (IF skip_tool_messages THEN <<>> ELSE Turn("tool", part, part.content))
    ELSE <<>>

\* the ConversationMessage appended for one part: <<>> or <<message>>
PartTurn(part, skip_system_messages, skip_tool_messages) ==
    IF part.part_kind = "system-prompt"
    THEN (IF skip_system_messages THEN <<>> ELSE Turn("system", part, part.content))
    ELSE IF part.part_kind = "user-prompt"
    THEN Turn("user", part, UserPromptContent(part.content))
    ELSE IF part.part_kind = "text"
    THEN Turn("assistant", part, part.content)
    ELSE <<>>

\* conversation_messages.insert(0, ...): the turns of a record, last part first
RECURSIVE PartsTurnsLastFirst(_, _, _)
PartsTurnsLastFirst(parts, skip_system_messages, skip_tool_messages) ==
    IF parts = <<>> THEN <<>>
    ELSE PartsTurnsLastFirst(Tail(parts), skip_system_messages, skip_tool_messages)
         \o PartTurn(Head(parts), skip_system_messages, skip_tool_messages)

RECURSIVE PartsTurns(_, _, _)
PartsTurns(parts, skip_system_messages, skip_tool_messages) ==
    IF parts = <<>> THEN <<>>
    ELSE PartTurn(Head(parts), skip_system_messages, skip_tool_messages)
         \o PartsTurns(Tail(parts), skip_system_messages, skip_tool_messages)

RECURSIVE MessagesTurns(_, _, _)
MessagesTurns(msgs, skip_system_messages, skip_tool_messages) ==
    IF msgs = <<>> THEN <<>>
    ELSE (IF Head(msgs).parts = <<>> \/ Head(msgs).kind \notin {"request", "response"}
          THEN <<>>
          ELSE PartsTurns(Head(msgs).parts, skip_system_messages, skip_tool_messages))
         \o MessagesTurns(Tail(msgs), skip_system_messages, skip_tool_messages)

convert_model_messages_to_conversation(message_history, recent_messages, skip_system_messages, skip_tool_messages) ==
    MessagesTurns(MessagesToProcess(message_history, recent_messages),
                  skip_system_messages, skip_tool_messages)

(***************************************************************************)
(* src/src/structs.py, src/src/agents/skill.py, src/src/skills.py,         *)
(* src/src/agents/chat.py: judging a conversation.  A str that the code    *)
(* only builds is the sequence of its pieces; scores and confidences are   *)
(* in tenths.  The outcome of a call is [returned |-> value] or            *)
(* [raised |-> exception]; an exception is [class, message].               *)
(***************************************************************************)
Returned(value) == [returned |-> value]
Raised(exception) == [raised |-> exception]
HasRaised(outcome) == "raised" \in DOMAIN outcome

\* SkillJudgementFull(...) of structs.py; unset fields take their defaults
SkillJudgementFull(skill_type, score, reason, confidence, conversation_context) ==
    [skill_type |-> skill_type, score |-> score, reason |-> reason,
     confidence |-> confidence, conversation_context |-> conversation_context]

\* the spellings of "no skill" that the judge model writes as text, and
\* str.lower() on the skill types the judge model returns here
NullSpellings == {"null", "none", "na", "nil", "n/a"}

Lower(text) ==
    CASE text = "N/A" -> "n/a"
      [] text = "None" -> "none"
      [] text = "NULL" -> "null"
      [] OTHER -> text

NormalizedSkillType(skill_type) ==
    IF skill_type # None /\ Lower(skill_type) \in NullSpellings THEN None ELSE skill_type

\* SkillJudgment(...) and SkillJudgmentFull(...), the classes agents/skill.py uses
SkillJudgment(skill_type, score, reason, confidence) ==
    [skill_type |-> NormalizedSkillType(skill_type), score |-> score,
     reason |-> reason, confidence |-> confidence]

SkillJudgmentFull(skill_type, score, reason, confidence, conversation_context) ==
    [skill_type |-> NormalizedSkillType(skill_type), score |-> score, reason |-> reason,
     confidence |-> confidence, conversation_context |-> conversation_context]

\* agent.run(prompt): the judge model's output validated as a SkillJudgment, or
\* the exception the run ends with
AgentRun(run) ==
    IF "output" \in DOMAIN run
    THEN Returned(SkillJudgment(run.output.skill_type, run.output.score,
                                run.output.reason, run.output.confidence))
    ELSE Raised(run.error)

evaluate_conversation(run, conversation) ==
    IF HasRaised(AgentRun(run))
    THEN (IF AgentRun(run).raised.class = "UnexpectedModelBehavior"
          THEN Returned(SkillJudgmentFull(None, 0,
                            <<"Evaluation error: ">> \o AgentRun(run).raised.message,
                            10, PyNone))
          ELSE Raised(AgentRun(run).raised))
    ELSE LET output == AgentRun(run).returned
         IN  Returned(SkillJudgmentFull(output.skill_type, output.score, output.reason,
                                        output.confidence, PyList(conversation)))

\* the argument passed on: recent_messages if recent_messages > 0 else None
RecentLimit(recent_messages) == IF recent_messages > 0 THEN <<recent_messages>> ELSE <<>>

evaluate_recent_conversation_unguarded(run, message_history, recent_messages) ==
    LET conversation_messages ==
            convert_model_messages_to_conversation(
                message_history,
                RecentLimit(recent_messages),
                TRUE, TRUE)
    IN  [turns |-> Len(conversation_messages), evaluator_invoked |-> TRUE,
         outcome |-> evaluate_conversation(run, conversation_messages)]

\* what evaluate_recent_conversation returns or raises (outcome), with the
\* number of extracted turns and whether the judge agent was run
evaluate_recent_conversation(run, message_history, recent_messages) ==
    LET conversation_messages ==
            convert_model_messages_to_conversation(
                message_history,
                RecentLimit(recent_messages),
                TRUE, TRUE)
    IN  IF Len(conversation_messages) < 2
        THEN [turns |-> Len(conversation_messages), evaluator_invoked |-> FALSE,
              outcome |-> Returned(SkillJudgementFull(
                              None, 0,
                              <<"Insufficient conversation history for evaluation">>,
                              10, PyNone))]
        ELSE [turns |-> Len(conversation_messages), evaluator_invoked |-> TRUE,
              outcome |-> evaluate_conversation(run, conversation_messages)]

\* SQLite's CURRENT_TIMESTAMP, the default of created_at: the time of the
\* insert as "YYYY-MM-DD HH:MM:SS", that is, in whole seconds
TicksPerSecond == 2
CURRENT_TIMESTAMP == now \div TicksPerSecond

\* a store that would take the caller's timestamp when the judgement has one
CallerTimestamp(judgement) ==
    IF "timestamp" \in DOMAIN judgement /\ judgement.timestamp # <<>>
    THEN judgement.timestamp[1]
    ELSE CURRENT_TIMESTAMP

\* the value of created_at for an insert that does not name the column
created_at(judgement) == CURRENT_TIMESTAMP

\* the row db.add_skill_evaluation inserts
EvaluationRow(rows, user_id, session_id, judgement) ==
    [id |-> Len(rows) + 1, user_id |-> user_id, session_id |-> session_id,
     skill_type |-> judgement.skill_type, score |-> judgement.score,
     reason |-> judgement.reason, confidence |-> judgement.confidence,
     conversation_context |-> judgement.conversation_context,
     created_at |-> created_at(judgement)]

(***************************************************************************)
(* Inputs of the scoring functions: every sequence of up to MaxScores      *)
(* observations over ScoreValues and Timestamps (any input order, equal    *)
(* timestamps included), and the runs of up to MaxRun equal scores at      *)
(* ascending timestamps.                                                   *)
(***************************************************************************)
MaxScores == 3
MaxRun == 4
ScoreValues == {2, 5, 10}
RunValues == {8, 9, -10}
Timestamps == {1, 2, 3}
Observations == ScoreValues \X Timestamps

SeqsUpTo(S, n) == UNION {[1..k -> S] : k \in 0..n}

ConstantRuns == {[i \in 1..k |-> <<c, i>>] : c \in RunValues, k \in 1..MaxRun}

\* scores of 1.0 followed by one of 0.7, 0.71 or 0.72
DropRuns ==
    {[i \in 1..k |-> <<IF i = k THEN last ELSE 10, i>>] : k \in 1..MaxRun, last \in {7, 71, 72}}

ScoreInputs == SeqsUpTo(Observations, MaxScores) \cup ConstantRuns \cup DropRuns

IdleScore == scores = <<>> /\ score_out = NoResult

InitScore ==
    /\ scores \in ScoreInputs
    /\ score_out = NoResult
    /\ skill_history = <<>>
    /\ summary_out = NoResult
    /\ messages = <<>>
    /\ skill_evaluations = <<>>
    /\ evaluator_calls = 0
    /\ judged = NoResult
    /\ IdleStore
    /\ IdleSessions
    /\ IdleExtract

\* one call of each scoring function on the same argument
ApplyScoring ==
    /\ score_out = NoResult
    /\ score_out' = <<[weighted   |-> calculate_weighted_score(scores),
                       mastered   |-> is_skill_mastered(scores),
                       time_aware |-> is_skill_mastered_time_aware(scores, TRUE),
                       positional |-> is_skill_mastered_time_aware(scores, FALSE)]>>
    /\ UNCHANGED <<scores, summaryVars, judgeVars, storeVars, sessionVars, extractVars>>

NextScore == ApplyScoring

SpecScore == InitScore /\ [][NextScore]_vars

(***************************************************************************)
(* Inputs of get_user_skill_summary: the histories of up to MaxHistory     *)
(* evaluations, oldest first, of two skills of the taxonomy, of a skill    *)
(* type outside it and of no skill type.                                   *)
(***************************************************************************)
MaxHistory == 4
EvaluatedSkills == {"empathy", "small_talk"}
UnknownSkill == "juggling"
HistoryEntries ==
    (EvaluatedSkills \X {5, 10}) \cup {<<UnknownSkill, 10>>, <<None, 0>>}

Histories ==
    {[i \in 1..Len(es) |-> [skill_type |-> es[i][1], score |-> es[i][2], timestamp |-> i]] :
        es \in SeqsUpTo(HistoryEntries, MaxHistory)}

IdleSummary == skill_history = <<>> /\ summary_out = NoResult

InitSummary ==
    /\ skill_history \in Histories
    /\ summary_out = NoResult
    /\ IdleScore
    /\ messages = <<>>
    /\ skill_evaluations = <<>>
    /\ evaluator_calls = 0
    /\ judged = NoResult
    /\ IdleStore
    /\ IdleSessions
    /\ IdleExtract

ApplySummary ==
    /\ summary_out = NoResult
    /\ summary_out' = <<get_user_skill_summary(skill_history)>>
    /\ UNCHANGED <<skill_history, scoreVars, judgeVars, storeVars, sessionVars, extractVars>>

NextSummary == ApplySummary

SpecSummary == InitSummary /\ [][NextSummary]_vars

(***************************************************************************)
(* src/src/agents/chat.py: the judge_conversation tool, called once on a   *)
(* message history of up to MaxMessages messages.                          *)
(***************************************************************************)
MaxMessages == 3

Part(part_kind, content) == [part_kind |-> part_kind, content |-> content, timestamp |-> 1]
ModelRequest(parts) == [kind |-> "request", parts |-> parts]
ModelResponse(parts) == [kind |-> "response", parts |-> parts]

Hi == PyStr(<<"h", "i">>)
Yo == PyStr(<<"y", "o">>)
Blank == PyStr(<<" ", "\n">>)

ModelMessages ==
    {ModelRequest(<<Part("system-prompt", Hi), Part("user-prompt", Hi)>>),
     ModelRequest(<<Part("user-prompt", Blank)>>),
     ModelRequest(<<Part("tool-return", Yo),
                    Part("user-prompt", PyList(<<Hi, PyObj("ImageUrl"), Yo>>))>>),
     ModelResponse(<<Part("thinking", Hi), Part("tool-call", PyNone)>>),
     ModelResponse(<<Part("text", Yo)>>),
     ModelResponse(<<>>)}

\* what the judge model answers, before validation, and how a run can fail
JudgeOutput(skill_type, score) ==
    [output |-> [skill_type |-> skill_type, score |-> score,
                 reason |-> <<"as seen in the conversation">>, confidence |-> 8]]

JudgeError(class, message) == [error |-> [class |-> class, message |-> <<message>>]]

ProtocolViolation == JudgeError("UnexpectedModelBehavior", "Received empty model response")
MalformedOutput ==
    JudgeError("UnexpectedModelBehavior", "Exceeded maximum retries (1) for output validation")
TransportError == JudgeError("ModelHTTPError", "status_code: 503")
\* the task running the tool is cancelled while it awaits the judge agent
Cancelled == JudgeError("CancelledError", "")
\* what db.add_skill_evaluation raises when the store refuses the insert
StorageError == [class |-> "OperationalError", message |-> <<"database is locked">>]

\* "except Exception" catches it: asyncio.CancelledError derives from BaseException
IsException(exception) == exception.class # "CancelledError"

AgentRuns ==
    {JudgeOutput("empathy", 9), JudgeOutput(UnknownSkill, 5), JudgeOutput(None, 0),
     JudgeOutput("N/A", 5), JudgeOutput("nil", 0),
     ProtocolViolation, MalformedOutput, TransportError, Cancelled}

RecentMessages == {-1, 1, 2}

\* ctx.deps
Deps == [user_id |-> "u1", session_id |-> "s1"]

StoredEvaluation ==
    EvaluationRow(<<>>, Deps.user_id, Deps.session_id,
                  SkillJudgementFull("small_talk", 5, <<"earlier">>, 10, PyNone))

IdleJudge ==
    /\ messages = <<>>
    /\ skill_evaluations = <<>>
    /\ evaluator_calls = 0
    /\ judged = NoResult

InitJudge ==
    /\ IdleStore
    /\ messages \in SeqsUpTo(ModelMessages, MaxMessages)
    /\ skill_evaluations \in {<<>>, <<StoredEvaluation>>}
    /\ evaluator_calls = 0
    /\ judged = NoResult
    /\ IdleScore
    /\ IdleSummary
    /\ IdleSessions
    /\ IdleExtract

\* the try block of judge_conversation after the evaluation: the table's rows
\* after it, what it returns or raises, and the number of inserts it attempted
TryStoringAll(evaluation, storage_fails) ==
    IF HasRaised(evaluation.outcome)
    THEN [rows |-> skill_evaluations, outcome |-> evaluation.outcome, inserts |-> 0]
    ELSE IF storage_fails
    THEN [rows |-> skill_evaluations, outcome |-> Raised(StorageError), inserts |-> 1]
    ELSE [rows |-> Append(skill_evaluations,
                          EvaluationRow(skill_evaluations, Deps.user_id,
                                        Deps.session_id, evaluation.outcome.returned)),
          outcome |-> Returned(<<"Skill evaluation performed.">>), inserts |-> 1]

TryStoringFailures(evaluation, storage_fails) ==
    IF HasRaised(evaluation.outcome)
    THEN [rows |-> Append(skill_evaluations,
                          EvaluationRow(skill_evaluations, Deps.user_id, Deps.session_id,
                                        SkillJudgementFull("error", 0,
                                            evaluation.outcome.raised.message, 10, PyNone))),
          outcome |-> evaluation.outcome, inserts |-> 1]
    ELSE IF evaluation.outcome.returned.skill_type # None
    THEN (IF storage_fails
          THEN [rows |-> skill_evaluations, outcome |-> Raised(StorageError), inserts |-> 1]
          ELSE [rows |-> Append(skill_evaluations,
                                EvaluationRow(skill_evaluations, Deps.user_id,
                                              Deps.session_id, evaluation.outcome.returned)),
                outcome |-> Returned(<<"Skill evaluation performed.">>), inserts |-> 1])
    ELSE [rows |-> skill_evaluations,
          outcome |-> Returned(<<"Skill evaluation rejected for reason: ">>
                               \o evaluation.outcome.returned.reason),
          inserts |-> 0]

JudgeTry(evaluation, storage_fails) ==
    IF HasRaised(evaluation.outcome)
    THEN [rows |-> skill_evaluations, outcome |-> evaluation.outcome, inserts |-> 0]
    ELSE IF evaluation.outcome.returned.skill_type # None
    THEN (IF storage_fails
          THEN [rows |-> skill_evaluations, outcome |-> Raised(StorageError), inserts |-> 1]
          ELSE [rows |-> Append(skill_evaluations,
                                EvaluationRow(skill_evaluations, Deps.user_id,
                                              Deps.session_id, evaluation.outcome.returned)),
                outcome |-> Returned(<<"Skill evaluation performed.">>), inserts |-> 1])
    ELSE [rows |-> skill_evaluations,
          outcome |-> Returned(<<"Skill evaluation rejected for reason: ">>
                               \o evaluation.outcome.returned.reason),
          inserts |-> 0]

\* try / except Exception of judge_conversation
ExceptNothing(tried) == tried

ExceptException(tried) ==
    IF HasRaised(tried.outcome) /\ IsException(tried.outcome.raised)
    THEN [tried EXCEPT !.outcome = Returned(<<"Error evaluating conversation.">>)]
    ELSE tried

\* the body of judge_conversation after the evaluation: what it stores and how it ends
JudgeStoringAll(evaluation, storage_fails) ==
    ExceptException(TryStoringAll(evaluation, storage_fails))

JudgeBody(evaluation, storage_fails) ==
    ExceptException(JudgeTry(evaluation, storage_fails))

\* one call of the tool: the chat model picks recent_messages, the judge agent's
\* run ends as run, and the store takes or refuses the insert
judge_conversation(recent_messages, run, storage_fails) ==
    LET evaluation == evaluate_recent_conversation(run, messages, recent_messages)
        body       == JudgeBody(evaluation, storage_fails)
    IN  /\ judged = NoResult
        /\ judged' = <<[recent_messages   |-> recent_messages,
                        run               |-> run,
                        storage_fails     |-> storage_fails,
                        turns             |-> evaluation.turns,
                        evaluator_invoked |-> evaluation.evaluator_invoked,
                        evaluation        |-> evaluation.outcome,
                        inserts           |-> body.inserts,
                        outcome           |-> body.outcome,
                        returns           |-> IF HasRaised(body.outcome) THEN NoResult
                                              ELSE body.outcome.returned]>>
        /\ evaluator_calls' = evaluator_calls + (IF evaluation.evaluator_invoked THEN 1 ELSE 0)
        /\ skill_evaluations' = body.rows
        /\ UNCHANGED <<messages, scoreVars, summaryVars, storeVars, sessionVars, extractVars>>

NextJudge ==
    \E recent_messages \in RecentMessages, run \in AgentRuns, storage_fails \in BOOLEAN :
        judge_conversation(recent_messages, run, storage_fails)

SpecJudge == InitJudge /\ [][NextJudge]_vars

(***************************************************************************)
(* src/src/db.py: the skill_evaluations table under up to MaxAppends calls *)
(* of add_skill_evaluation, with the clock running and the table queried   *)
(* in between.  A query with ORDER BY created_at ASC returns the rows with *)
(* equal created_at in an order SQL leaves open.                           *)
(***************************************************************************)
MaxAppends == 3
Instants == 0..2

\* the judgement with the timestamp its maker gave it (<<>> for None)
WithTimestamp(judgement, timestamp) ==
    [field \in DOMAIN judgement \cup {"timestamp"} |->
        IF field = "timestamp" THEN timestamp ELSE judgement[field]]

\* judgements as evaluate_conversation builds them, timestamp=datetime.now()
\* of a caller whose clock is ahead, and one without timestamp
Listened == WithTimestamp(SkillJudgementFull("empathy", 5, <<"listened">>, 8, PyNone), <<9>>)
Reflected == WithTimestamp(SkillJudgementFull("empathy", 10, <<"reflected">>, 10, PyNone), <<>>)

\* the calls of db.add_skill_evaluation: <<user_id, session_id, judgement>>
Appends ==
    {<<"u1", "s1", Listened>>, <<"u1", "s1", Reflected>>,
     <<"u1", "s2", Reflected>>, <<"u2", "s3", Listened>>}

\* the orders in which a SELECT may return the rows numbered by ids
AnyOrder(rows, ids) ==
    {order \in [1..Cardinality(ids) -> ids] :
        \A j, k \in 1..Cardinality(ids) : j # k => order[j] # order[k]}

\* ... ORDER BY created_at ASC
OrderByCreatedAt(rows, ids) ==
    {order \in AnyOrder(rows, ids) :
        \A j, k \in 1..Cardinality(ids) :
            j < k => rows[order[j]].created_at <= rows[order[k]].created_at}

\* the results db.get_skill_scores can return
get_skill_scores(user_id, skill_type) ==
    LET ids == {i \in 1..Len(skill_evaluations) :
                   /\ skill_evaluations[i].user_id = user_id
                   /\ skill_evaluations[i].skill_type = skill_type}
    IN  {[j \in 1..Cardinality(ids) |->
            <<skill_evaluations[order[j]].score, skill_evaluations[order[j]].created_at>>] :
         order \in OrderByCreatedAt(skill_evaluations, ids)}

\* the SkillJudgementFull read back from a row
SkillJudgementRecord(row) ==
    [judgement_id |-> row.id, user_id |-> row.user_id, session_id |-> row.session_id,
     skill_type |-> row.skill_type, score |-> row.score, reason |-> row.reason,
     confidence |-> row.confidence, conversation_context |-> row.conversation_context,
     timestamp |-> row.created_at]

\* the results db.get_skill_history can return: the user's rows, of one session
\* when session_id is given, ascending by created_at
get_skill_history(user_id, session_id) ==
    LET ids == {i \in 1..Len(skill_evaluations) :
                   /\ skill_evaluations[i].user_id = user_id
                   /\ session_id # None => skill_evaluations[i].session_id = session_id}
    IN  {[j \in 1..Cardinality(ids) |-> SkillJudgementRecord(skill_evaluations[order[j]])] :
         order \in OrderByCreatedAt(skill_evaluations, ids)}

InitStore ==
    /\ IdleStore
    /\ IdleScore
    /\ IdleSummary
    /\ IdleJudge
    /\ IdleSessions
    /\ IdleExtract

Tick ==
    /\ now + 1 \in Instants
    /\ now' = now + 1
    /\ history_out' = NoResult
    /\ summary_out' = NoResult
    /\ UNCHANGED <<append_calls, skill_history, scoreVars, judgeVars, sessionVars, extractVars>>

add_skill_evaluation(user_id, session_id, judgement) ==
    /\ Len(skill_evaluations) < MaxAppends
    /\ skill_evaluations' =
           Append(skill_evaluations,
                  EvaluationRow(skill_evaluations, user_id, session_id, judgement))
    /\ append_calls' = Append(append_calls, [at |-> now, user_id |-> user_id,
                                             session_id |-> session_id,
                                             judgement |-> judgement])
    /\ history_out' = NoResult
    /\ summary_out' = NoResult
    /\ UNCHANGED <<now, messages, evaluator_calls, judged, skill_history,
                   scoreVars, sessionVars, extractVars>>

\* GET /skills/{user_id}/history and get_user_skill_summary: db.get_skill_history.
\* history_out keeps the result of one query, until the clock or the table moves
QueryHistory(user_id, session_id) ==
    /\ history_out = NoResult
    /\ \E result \in get_skill_history(user_id, session_id) :
           history_out' = <<[query |-> "get_skill_history", user_id |-> user_id,
                             session_id |-> session_id, result |-> result]>>
    /\ UNCHANGED <<now, append_calls, scoreVars, summaryVars, judgeVars,
                   sessionVars, extractVars>>

QueryScores(user_id, skill_type) ==
    /\ history_out = NoResult
    /\ \E result \in get_skill_scores(user_id, skill_type) :
           history_out' = <<[query |-> "get_skill_scores", user_id |-> user_id,
                             skill_type |-> skill_type, result |-> result]>>
    /\ UNCHANGED <<now, append_calls, scoreVars, summaryVars, judgeVars,
                   sessionVars, extractVars>>

\* skill_history = await db.get_skill_history(user_id) of every user at once
AnyUserHistory(user_id) ==
    UNION {get_skill_history(other, None) : other \in {"u1", "u2"}}

\* skill_history = await db.get_skill_history(user_id)
UserSkillHistory(user_id) == get_skill_history(user_id, None)

\* get_user_skill_summary(deps) for deps.user_id: <<the summary, user_id>>, kept
\* until the clock or the table moves
Summarise(user_id) ==
    /\ summary_out = NoResult
    /\ \E history \in UserSkillHistory(user_id) :
           summary_out' = <<get_user_skill_summary(history), user_id>>
    /\ UNCHANGED <<skill_history, scoreVars, judgeVars, storeVars, sessionVars, extractVars>>

NextStore ==
    \/ Tick
    \/ \E call \in Appends : add_skill_evaluation(call[1], call[2], call[3])
    \/ \E user_id \in {"u1", "u2"}, session_id \in {None, "s1"} :
           QueryHistory(user_id, session_id)
    \/ \E user_id \in {"u1", "u2"} : QueryScores(user_id, "empathy")

SpecStore == InitStore /\ [][NextStore]_vars

\* the table under up to MaxJudgements appends, summarised in between
MaxJudgements == 2

NextAggregate ==
    \/ Tick
    \/ \E call \in Appends :
           /\ Len(skill_evaluations) < MaxJudgements
           /\ add_skill_evaluation(call[1], call[2], call[3])
    \/ \E user_id \in {"u1", "u2"} : Summarise(user_id)

SpecAggregate == InitStore /\ [][NextAggregate]_vars

(***************************************************************************)
(* src/src/db.py: the sessions table under up to MaxEnsures calls of       *)
(* ensure_session.  A call awaits the SELECT, then the INSERT; requests    *)
(* share the connection and their calls interleave at the awaits.          *)
(***************************************************************************)
MaxEnsures == 3

SessionIds == {"s1", "s2"}
UserIds == {"u1", "u2"}

\* SELECT 1 FROM sessions WHERE id = ? finds a row
SessionExists(rows, session_id) ==
    \E i \in 1..Len(rows) : rows[i].id = session_id

\* INSERT INTO sessions (id, user_id) VALUES (?, ?); id is the primary key
IntegrityError ==
    [class |-> "IntegrityError", message |-> <<"UNIQUE constraint failed: sessions.id">>]

\* INSERT OR REPLACE INTO sessions ...
InsertOrReplaceSession(rows, session_id, user_id) ==
    IF SessionExists(rows, session_id)
    THEN Returned([i \in 1..Len(rows) |->
                      IF rows[i].id = session_id
                      THEN [id |-> session_id, user_id |-> user_id] ELSE rows[i]])
    ELSE Returned(Append(rows, [id |-> session_id, user_id |-> user_id]))

InsertSession(rows, session_id, user_id) ==
    IF SessionExists(rows, session_id)
    THEN Raised(IntegrityError)
    ELSE Returned(Append(rows, [id |-> session_id, user_id |-> user_id]))

InitSessions ==
    /\ IdleSessions
    /\ IdleScore
    /\ IdleSummary
    /\ IdleStore
    /\ IdleJudge
    /\ IdleExtract

\* ensure_session up to the fetchone(): returns when the row is there
EnsureSelect(session_id, user_id) ==
    /\ Len(ensuring) < MaxEnsures
    /\ ensuring' = Append(ensuring,
                          [session_id |-> session_id, user_id |-> user_id,
                           found |-> SessionExists(sessions, session_id),
                           pc |-> IF SessionExists(sessions, session_id)
                                  THEN "returned" ELSE "insert"])
    /\ UNCHANGED <<sessions, message_rows, message_calls, users, requests,
                   scoreVars, summaryVars, judgeVars, storeVars, extractVars>>

\* ensure_session from the INSERT on
EnsureInsert(c) ==
    LET inserted == InsertSession(sessions, ensuring[c].session_id, ensuring[c].user_id) IN
    /\ ensuring[c].pc = "insert"
    /\ IF HasRaised(inserted)
       THEN /\ ensuring' = [ensuring EXCEPT ![c].pc = "raised"]
            /\ UNCHANGED sessions
       ELSE /\ ensuring' = [ensuring EXCEPT ![c].pc = "returned"]
            /\ sessions' = inserted.returned
    /\ UNCHANGED <<message_rows, message_calls, users, requests,
                   scoreVars, summaryVars, judgeVars, storeVars, extractVars>>

NextSessions ==
    \/ \E session_id \in SessionIds, user_id \in UserIds : EnsureSelect(session_id, user_id)
    \/ \E c \in 1..Len(ensuring) : EnsureInsert(c)

SpecSessions == InitSessions /\ [][NextSessions]_vars

(***************************************************************************)
(* src/src/db.py, src/src/app.py: the messages table under up to MaxChunks *)
(* calls of add_messages, read by get_messages as the chat handler does    *)
(* before a run.                                                           *)
(***************************************************************************)
MaxChunks == 3

\* ModelMessagesTypeAdapter.dump_json / validate_json: a list of messages as
\* one JSON document and back
dump_json(model_messages) == [json |-> model_messages]
validate_json(data) == data.json

Asked == ModelRequest(<<Part("user-prompt", Hi)>>)
Answered == ModelResponse(<<Part("text", Yo)>>)

\* result.new_messages() of a run
Chunks == {<<Asked, Answered>>, <<Answered>>, <<>>}

\* INSERT OR REPLACE keyed by the session: one row per session
UpsertMessages(rows, session_id, model_messages) ==
    IF \E i \in 1..Len(rows) : rows[i].session_id = session_id
    THEN [i \in 1..Len(rows) |->
             IF rows[i].session_id = session_id
             THEN [rows[i] EXCEPT !.data = dump_json(model_messages)] ELSE rows[i]]
    ELSE Append(rows, [id |-> Len(rows) + 1, session_id |-> session_id,
                       data |-> dump_json(model_messages)])

\* INSERT INTO messages (session_id, data) VALUES (?, ?); id is AUTOINCREMENT
InsertMessages(rows, session_id, model_messages) ==
    Append(rows, [id |-> Len(rows) + 1, session_id |-> session_id,
                  data |-> dump_json(model_messages)])

\* SELECT data FROM messages WHERE session_id = ? ORDER BY id ASC, each row's
\* messages extended onto the result; rows holds the table ascending by id
RECURSIVE SelectMessages(_, _)
SelectMessages(rows, session_id) ==
    IF rows = <<>> THEN <<>>
    ELSE IF Head(rows).session_id = session_id
    THEN validate_json(Head(rows).data) \o SelectMessages(Tail(rows), session_id)
    ELSE SelectMessages(Tail(rows), session_id)

get_messages(session_id) == SelectMessages(message_rows, session_id)

InitMessages ==
    /\ IdleSessions
    /\ IdleScore
    /\ IdleSummary
    /\ IdleStore
    /\ IdleJudge
    /\ IdleExtract

\* await db.add_messages(session_id, result.new_messages())
add_messages(session_id, model_messages) ==
    /\ Len(message_calls) < MaxChunks
    /\ message_rows' = InsertMessages(message_rows, session_id, model_messages)
    /\ message_calls' = Append(message_calls, [session_id |-> session_id,
                                               model_messages |-> model_messages])
    /\ UNCHANGED <<sessions, ensuring, users, requests, scoreVars, summaryVars, judgeVars,
                   storeVars, extractVars>>

\* hist = await db.get_messages(session_id), the history the run starts from
ReadHistory(session_id) ==
    /\ messages' = get_messages(session_id)
    /\ UNCHANGED <<skill_evaluations, evaluator_calls, judged, sessionVars,
                   scoreVars, summaryVars, storeVars, extractVars>>

NextMessages ==
    \/ \E session_id \in SessionIds, model_messages \in Chunks :
           add_messages(session_id, model_messages)
    \/ \E session_id \in SessionIds : ReadHistory(session_id)

SpecMessages == InitMessages /\ [][NextMessages]_vars

(***************************************************************************)
(* src/src/utils.py, src/src/skills.py, src/src/app.py: one extraction of  *)
(* the conversation from a history of up to MaxRecords messages, called    *)
(* directly or as evaluate_recent_conversation calls it.                   *)
(***************************************************************************)
MaxRecords == 3

\* messages whose parts cover every branch of the loop over msg.parts
Records ==
    ModelMessages \cup
    {ModelRequest(<<Part("retry-prompt", Hi), Part("user-prompt", PyList(<<PyObj("ImageUrl")>>))>>),
     ModelResponse(<<Part("text", PyStr(<<>>)), Part("builtin-tool-call", Yo)>>),
     ModelRequest(<<Part("system-prompt", Blank), Part("user-prompt", PyNone)>>)}

\* recent_messages of a direct call: None or a positive count
Limits == {<<>>, <<1>>, <<2>>, <<3>>}

InitExtract ==
    /\ raw_history \in SeqsUpTo(Records, MaxRecords)
    /\ extracted = NoResult
    /\ IdleScore
    /\ IdleSummary
    /\ IdleStore
    /\ IdleJudge
    /\ IdleSessions

\* del message_history[:-recent_messages]: the caller's list cut down in place
TruncatedInPlace(message_history, recent_messages) ==
    MessagesToProcess(message_history, recent_messages)

\* the caller's list after the call: message_history[-recent_messages:] builds
\* a new list and the loops only read, so it is as it was
CallerHistory(message_history, recent_messages) == message_history

\* convert_model_messages_to_conversation(message_history, recent_messages,
\* skip_system_messages, skip_tool_messages) called on the history
Extract(recent_messages, skip_system_messages, skip_tool_messages) ==
    /\ extracted = NoResult
    /\ extracted' = <<[via          |-> "convert_model_messages_to_conversation",
                       limit        |-> recent_messages,
                       skip_system  |-> skip_system_messages,
                       skip_tool    |-> skip_tool_messages,
                       conversation |-> convert_model_messages_to_conversation(
                                            raw_history, recent_messages,
                                            skip_system_messages, skip_tool_messages)]>>
    /\ raw_history' = CallerHistory(raw_history, recent_messages)
    /\ UNCHANGED <<scoreVars, summaryVars, judgeVars, storeVars, sessionVars>>

\* the conversion at the head of evaluate_recent_conversation
ExtractRecent(recent_messages) ==
    /\ extracted = NoResult
    /\ extracted' = <<[via          |-> "evaluate_recent_conversation",
                       limit        |-> <<recent_messages>>,
                       skip_system  |-> TRUE,
                       skip_tool    |-> TRUE,
                       conversation |-> convert_model_messages_to_conversation(
                                            raw_history, RecentLimit(recent_messages),
                                            TRUE, TRUE)]>>
    /\ raw_history' = CallerHistory(raw_history, RecentLimit(recent_messages))
    /\ UNCHANGED <<scoreVars, summaryVars, judgeVars, storeVars, sessionVars>>

\* the same call made a second time, on the list the first call left
ExtractAgain ==
    LET first == extracted[1]
        limit == IF first.via = "evaluate_recent_conversation"
                 THEN RecentLimit(first.limit[1]) ELSE first.limit
    IN  /\ Len(extracted) = 1
        /\ extracted' = Append(extracted,
                               [first EXCEPT !.conversation =
                                    convert_model_messages_to_conversation(
                                        raw_history, limit, first.skip_system, first.skip_tool)])
        /\ raw_history' = CallerHistory(raw_history, limit)
        /\ UNCHANGED <<scoreVars, summaryVars, judgeVars, storeVars, sessionVars>>

NextExtract ==
    \/ \E recent_messages \in Limits, skip_system_messages \in BOOLEAN, skip_tool_messages \in BOOLEAN :
           Extract(recent_messages, skip_system_messages, skip_tool_messages)
    \/ \E recent_messages \in RecentMessages \cup {0} : ExtractRecent(recent_messages)
    \/ ExtractAgain

SpecExtract == InitExtract /\ [][NextExtract]_vars

(***************************************************************************)
(* src/src/utils.py: the same calls on histories whose records hold parts  *)
(* of the other origin, or are neither a ModelRequest nor a ModelResponse. *)
(***************************************************************************)
\* a message that is neither a ModelRequest nor a ModelResponse
OtherMessage(parts) == [kind |-> "other", parts |-> parts]

MixedRecords ==
    {ModelRequest(<<Part("text", Yo), Part("user-prompt", Hi)>>),
     ModelResponse(<<Part("user-prompt", Hi), Part("system-prompt", Yo)>>),
     OtherMessage(<<Part("user-prompt", Hi), Part("text", Yo)>>),
     ModelResponse(<<Part("text", Yo)>>)}

InitRoles ==
    /\ raw_history \in SeqsUpTo(MixedRecords, MaxRecords)
    /\ extracted = NoResult
    /\ IdleScore
    /\ IdleSummary
    /\ IdleStore
    /\ IdleJudge
    /\ IdleSessions

SpecRoles == InitRoles /\ [][NextExtract]_vars

(***************************************************************************)
(* src/src/app.py: up to MaxRequests POST /chat requests sharing the       *)
(* database connection.  A request suspends at every await, and the steps  *)
(* of the requests interleave there.  A request is [user_id, session_id,   *)
(* pc, raised, hist, judgements, stored]: pc is the step it is at, raised  *)
(* the exception that ended it (<<>> if none), judgements and stored count *)
(* the rows it has put into skill_evaluations and messages.                *)
(***************************************************************************)
MaxRequests == 2

\* SELECT 1 FROM users WHERE id = ? finds a row
UserExists(rows, user_id) == \E i \in 1..Len(rows) : rows[i].id = user_id

\* INSERT INTO users (id) VALUES (?); id is the primary key
InsertUser(rows, user_id) ==
    IF UserExists(rows, user_id)
    THEN Raised([class |-> "IntegrityError",
                 message |-> <<"UNIQUE constraint failed: users.id">>])
    ELSE Returned(Append(rows, [id |-> user_id]))

\* result.new_messages() of a request's run
NewMessages == <<Asked, Answered>>

\* add_messages in a finally clause: the table after stream_text() ends
SavedInFinally(rows, session_id, completed) ==
    InsertMessages(rows, session_id, NewMessages)

\* the messages table after stream_text() ends: add_messages is reached only
\* when the loop over result.stream_text() has run to its end
SavedAfterStream(rows, session_id, completed) ==
    IF completed THEN InsertMessages(rows, session_id, NewMessages) ELSE rows

InitChat ==
    /\ IdleSessions
    /\ IdleScore
    /\ IdleSummary
    /\ IdleStore
    /\ IdleJudge
    /\ IdleExtract

\* a request arrives; ensure_user up to the fetchone()
ChatEnsureUser(user_id, session_id) ==
    /\ Len(requests) < MaxRequests
    /\ requests' = Append(requests,
                          [user_id |-> user_id, session_id |-> session_id,
                           pc |-> IF UserExists(users, user_id)
                                  THEN "ensure_session" ELSE "insert_user",
                           raised |-> <<>>, hist |-> <<>>, judgements |-> 0, stored |-> 0])
    /\ UNCHANGED <<sessions, message_rows, message_calls, ensuring, users,
                   scoreVars, summaryVars, judgeVars, storeVars, extractVars>>

\* ensure_user from the INSERT on; an exception ends the request
ChatInsertUser(r) ==
    LET inserted == InsertUser(users, requests[r].user_id) IN
    /\ requests[r].pc = "insert_user"
    /\ IF HasRaised(inserted)
       THEN /\ requests' = [requests EXCEPT ![r].pc = "raised",
                                            ![r].raised = <<inserted.raised>>]
            /\ UNCHANGED users
       ELSE /\ requests' = [requests EXCEPT ![r].pc = "ensure_session"]
            /\ users' = inserted.returned
    /\ UNCHANGED <<sessions, message_rows, message_calls, ensuring,
                   scoreVars, summaryVars, judgeVars, storeVars, extractVars>>

\* ensure_session up to the fetchone()
ChatEnsureSession(r) ==
    /\ requests[r].pc = "ensure_session"
    /\ requests' = [requests EXCEPT ![r].pc =
                        IF SessionExists(sessions, requests[r].session_id)
                        THEN "get_messages" ELSE "insert_session"]
    /\ UNCHANGED <<sessions, message_rows, message_calls, ensuring, users,
                   scoreVars, summaryVars, judgeVars, storeVars, extractVars>>

\* ensure_session from the INSERT on
ChatInsertSession(r) ==
    LET inserted == InsertSession(sessions, requests[r].session_id, requests[r].user_id) IN
    /\ requests[r].pc = "insert_session"
    /\ IF HasRaised(inserted)
       THEN /\ requests' = [requests EXCEPT ![r].pc = "raised",
                                            ![r].raised = <<inserted.raised>>]
            /\ UNCHANGED sessions
       ELSE /\ requests' = [requests EXCEPT ![r].pc = "get_messages"]
            /\ sessions' = inserted.returned
    /\ UNCHANGED <<message_rows, message_calls, ensuring, users,
                   scoreVars, summaryVars, judgeVars, storeVars, extractVars>>

\* hist = await db.get_messages(session_id); the run starts from it
ChatGetMessages(r) ==
    /\ requests[r].pc = "get_messages"
    /\ requests' = [requests EXCEPT ![r].pc = "run",
                                    ![r].hist = get_messages(requests[r].session_id)]
    /\ UNCHANGED <<sessions, message_rows, message_calls, ensuring, users,
                   scoreVars, summaryVars, judgeVars, storeVars, extractVars>>

\* the run calls the judge_conversation tool, which stores a judgement under
\* ctx.deps.user_id and ctx.deps.session_id: those of the request
ChatJudge(r) ==
    /\ requests[r].pc = "run"
    /\ requests[r].judgements = 0
    /\ skill_evaluations' =
           Append(skill_evaluations,
                  EvaluationRow(skill_evaluations, requests[r].user_id,
                                requests[r].session_id, Listened))
    /\ requests' = [requests EXCEPT ![r].judgements = 1]
    /\ UNCHANGED <<messages, evaluator_calls, judged,
                   sessions, message_rows, message_calls, ensuring, users,
                   scoreVars, summaryVars, storeVars, extractVars>>

\* the stream ends, completed or not (the run raises, the stream breaks off or
\* the client goes away), and stream_text() with it
ChatStreamEnds(r, completed) ==
    /\ requests[r].pc = "run"
    /\ message_rows' = SavedAfterStream(message_rows, requests[r].session_id, completed)
    /\ message_calls' = IF message_rows' # message_rows
                        THEN Append(message_calls,
                                    [session_id |-> requests[r].session_id,
                                     model_messages |-> NewMessages])
                        ELSE message_calls
    /\ requests' = [requests EXCEPT
                        ![r].pc = IF completed THEN "done" ELSE "failed",
                        ![r].stored = @ + Len(message_rows') - Len(message_rows)]
    /\ UNCHANGED <<sessions, ensuring, users,
                   scoreVars, summaryVars, judgeVars, storeVars, extractVars>>

NextChat ==
    \/ \E user_id \in UserIds, session_id \in SessionIds : ChatEnsureUser(user_id, session_id)
    \/ \E r \in 1..Len(requests) : ChatInsertUser(r)
    \/ \E r \in 1..Len(requests) : ChatEnsureSession(r)
    \/ \E r \in 1..Len(requests) : ChatInsertSession(r)
    \/ \E r \in 1..Len(requests) : ChatGetMessages(r)
    \/ \E r \in 1..Len(requests) : ChatJudge(r)
    \/ \E r \in 1..Len(requests), completed \in BOOLEAN : ChatStreamEnds(r, completed)

SpecChat == InitChat /\ [][NextChat]_vars

(***************************************************************************)
(* Properties of the scoring functions (SpecScore)                         *)
(***************************************************************************)
Scored == score_out # NoResult
Result == score_out[1]

DistinctTimes(scs) ==
    \A i, j \in 1..Len(scs) : i # j => TimeOf(scs[i]) # TimeOf(scs[j])

AllScoresAre(scs, c) == \A i \in 1..Len(scs) : scs[i][1] = c

\* the same observations passed in another order
SwapFirstTwo(scs) ==
    IF Len(scs) < 2 THEN scs ELSE <<scs[2], scs[1]>> \o SubSeq(scs, 3, Len(scs))

Rotate(scs) == IF scs = <<>> THEN scs ELSE Append(Tail(scs), Head(scs))

\* the same observations in the same timestamp order, the gaps doubled
Spread(scs) == [i \in 1..Len(scs) |-> <<scs[i][1], 2 * TimeOf(scs[i])>>]

\* the position of the latest observation (of the last passed in, among equal
\* timestamps), and the observations without it
LatestIndex(scs) ==
    CHOOSE i \in 1..Len(scs) :
        \A j \in 1..Len(scs) :
            \/ TimeOf(scs[j]) < TimeOf(scs[i])
            \/ TimeOf(scs[j]) = TimeOf(scs[i]) /\ j <= i

WithoutLatest(scs) ==
    SubSeq(scs, 1, LatestIndex(scs) - 1) \o SubSeq(scs, LatestIndex(scs) + 1, Len(scs))

\* x and y are equal or adjacent binary64 values
FWithinOneUlp(x, y) ==
    \/ x = y
    \/ /\ x.neg = y.neg
       /\ x.exp = y.exp
       /\ (BigAdd(x.man, <<1>>) = y.man \/ BigAdd(y.man, <<1>>) = x.man)

\* C1: with fewer than 3 observations (none included) is_skill_mastered returns
\* false whatever the scores are, and so does is_skill_mastered_time_aware with
\* and without time weighting.
C1_GuardBelowMinimum ==
    Scored /\ Len(scores) < 3 =>
        /\ ~Result.mastered
        /\ ~Result.time_aware
        /\ ~Result.positional

\* two scores of 1.0: the weighted score is above the threshold, not mastered
C1_Witness ==
    /\ Scored
    /\ Len(scores) = 2
    /\ AllScoresAre(scores, 10)
    /\ FGe(Result.weighted, MASTERY_THRESHOLD)
    /\ ~Result.mastered /\ ~Result.time_aware /\ ~Result.positional

\* C2: with 3 or more observations is_skill_mastered returns true exactly when
\* the position-based weighted score is at least 0.8; a weighted score of
\* exactly 0.8 is mastered.
C2_MasteredIffAtThreshold ==
    Scored /\ Len(scores) >= 3 =>
        /\ Result.mastered <=> FCmp(Result.weighted, Tenths[8]) >= 0
        /\ Result.weighted = Tenths[8] => Result.mastered

\* three scores of 0.8: the weighted score is exactly 0.8, mastered
C2_Witness ==
    /\ Scored
    /\ Len(scores) = 3
    /\ Result.weighted = Tenths[8]
    /\ Result.mastered

\* C3 as stated: the weighted score does not depend on the order in which the
\* observations are passed in.
C3_AnyInputOrder ==
    Scored =>
        /\ Result.weighted = calculate_weighted_score(SwapFirstTwo(scores))
        /\ Result.weighted = calculate_weighted_score(Rotate(scores))

\* C3: a single score is the weighted score (the seed); with more, the weighted
\* score is 0.7 * latest score + (1 - 0.7) * weighted score of the earlier ones;
\* it does not depend on the gaps between timestamps, nor, when the timestamps
\* are pairwise distinct, on the order in which the observations are passed in.
\* Scores 0.5, 1.0, 0.2 at t1 < t2 < t3 in any input order give 0.395, not
\* mastered.
C3_OrderedFold ==
    Scored =>
        /\ Len(scores) = 1 => Result.weighted = ScoreOf(scores[1])
        /\ Len(scores) >= 2 =>
              Result.weighted =
                  FAdd(FMul(Tenths[7], ScoreOf(scores[LatestIndex(scores)])),
                       FMul(FSub(FOne, Tenths[7]),
                            calculate_weighted_score(WithoutLatest(scores))))
        /\ Result.weighted = calculate_weighted_score(Spread(scores))
        /\ DistinctTimes(scores) =>
              /\ Result.weighted = calculate_weighted_score(SwapFirstTwo(scores))
              /\ Result.weighted = calculate_weighted_score(Rotate(scores))
        /\ {scores[i] : i \in 1..Len(scores)} = {<<5, 1>>, <<10, 2>>, <<2, 3>>}
             /\ Len(scores) = 3 =>
              /\ Result.weighted = FLit(395, 1000)
              /\ ~Result.mastered

\* the scenario passed in latest first
C3_Witness ==
    /\ Scored
    /\ scores = <<<<2, 3>>, <<5, 1>>, <<10, 2>>>>
    /\ Result.weighted = FLit(395, 1000)
    /\ ~Result.mastered

\* C4 as stated: equal scores c give a weighted score of c.
C4_ConstantExact ==
    Scored =>
        \A c \in ScoreValues \cup RunValues :
            scores # <<>> /\ AllScoresAre(scores, c) => Result.weighted = Tenths[c]

\* C4: equal scores c give a weighted score of c up to floating-point rounding
\* (c or a binary64 value next to it); a single score s gives exactly s; four
\* scores of 0.9 give 0.9000000000000001 and are mastered.
C4_ConstantWithinRounding ==
    Scored =>
        /\ \A c \in ScoreValues \cup RunValues :
              scores # <<>> /\ AllScoresAre(scores, c) =>
                  FWithinOneUlp(Result.weighted, Tenths[c])
        /\ Len(scores) = 1 => Result.weighted = ScoreOf(scores[1])
        /\ Len(scores) = 4 /\ AllScoresAre(scores, 9) =>
              /\ Result.weighted.man = BigAdd(Tenths[9].man, <<1>>)
              /\ Result.weighted.exp = Tenths[9].exp
              /\ Result.mastered

\* four scores of 0.9: one place above 0.9, mastered
C4_Witness ==
    /\ Scored
    /\ Len(scores) = 4
    /\ AllScoresAre(scores, 9)
    /\ Result.weighted # Tenths[9]
    /\ Result.mastered

\* a score in hundredths, and the smallest and the largest score of a sequence
Percent(obs) == IF obs[1] \in DOMAIN Hundredths THEN obs[1] ELSE 10 * obs[1]

MinScore(scs) ==
    ScoreOf(scs[CHOOSE i \in 1..Len(scs) : \A j \in 1..Len(scs) : Percent(scs[i]) <= Percent(scs[j])])

MaxScore(scs) ==
    ScoreOf(scs[CHOOSE i \in 1..Len(scs) : \A j \in 1..Len(scs) : Percent(scs[i]) >= Percent(scs[j])])

\* C29 as stated: the weighted score of a non-empty sequence is at least its
\* smallest and at most its largest score, and within [-1.0, 1.0].
C29_BetweenMinAndMax ==
    Scored /\ scores # <<>> =>
        /\ FGe(Result.weighted, MinScore(scores))
        /\ FGe(MaxScore(scores), Result.weighted)
        /\ FGe(Result.weighted, Tenths[-10])
        /\ FGe(Tenths[10], Result.weighted)

\* C29: the weighted score of a non-empty sequence lies between its smallest
\* and its largest score up to floating-point rounding (it is at most one
\* binary64 value outside: scores of 0.9 give 0.9000000000000001), and scores
\* within [-1.0, 1.0] give a weighted score within [-1.0, 1.0].
C29_WithinRangeUpToRounding ==
    Scored /\ scores # <<>> =>
        /\ \/ FGe(Result.weighted, MinScore(scores))
           \/ FWithinOneUlp(Result.weighted, MinScore(scores))
        /\ \/ FGe(MaxScore(scores), Result.weighted)
           \/ FWithinOneUlp(Result.weighted, MaxScore(scores))
        /\ FGe(Result.weighted, Tenths[-10])
        /\ FGe(Tenths[10], Result.weighted)

\* two scores of 0.9: the weighted score is one place above the largest score
C29_Witness ==
    /\ Scored
    /\ Len(scores) = 2
    /\ AllScoresAre(scores, 9)
    /\ FCmp(Result.weighted, Tenths[9]) > 0
    /\ FGe(Tenths[10], Result.weighted)

\* C30: when is_skill_mastered returns true, the score with the latest
\* timestamp (the last passed in, among equal timestamps) is at least 5/7; with
\* a latest score of 0.7 or lower the skill is not mastered, whatever the
\* earlier scores are.
C30_LatestScoreDecides ==
    Scored /\ scores # <<>> =>
        /\ Result.mastered => 7 * Percent(scores[LatestIndex(scores)]) >= 5 * 100
        /\ Percent(scores[LatestIndex(scores)]) <= 70 => ~Result.mastered

\* three scores of 1.0 are mastered; one more of 0.71, below 5/7, and the
\* skill is not
C30_Witness ==
    /\ Scored
    /\ Len(scores) = 4
    /\ scores[LatestIndex(scores)][1] = 71
    /\ is_skill_mastered(WithoutLatest(scores))
    /\ AllScoresAre(WithoutLatest(scores), 10)
    /\ ~Result.mastered

(***************************************************************************)
(* Properties of get_user_skill_summary (SpecSummary)                      *)
(***************************************************************************)
Summarised == summary_out # NoResult
Summary == summary_out[1]

TypesIn(history) == {history[i].skill_type : i \in 1..Len(history)}

\* the history without the evaluations that have no skill type
RECURSIVE WithoutNone(_)
WithoutNone(history) ==
    IF history = <<>> THEN <<>>
    ELSE IF Head(history).skill_type = None THEN WithoutNone(Tail(history))
    ELSE <<Head(history)>> \o WithoutNone(Tail(history))

\* C5: whatever evaluations are stored (none, or some of a skill type outside
\* the taxonomy), skill_details has exactly the 10 taxonomy names as keys; a
\* skill without evaluations has total_evaluations 0, is_mastered false,
\* weighted_score 0.0 and latest_score None; a skill type outside the taxonomy
\* adds no entry and the summary is still returned.
C5_TaxonomyKeys ==
    Summarised =>
        /\ DOMAIN Summary.skill_details =
              {"active_listening", "assertiveness", "empathy", "conversation_initiation",
               "conflict_resolution", "emotional_regulation", "social_awareness",
               "encouragement", "boundary_setting", "small_talk"}
        /\ Cardinality(DOMAIN Summary.skill_details) = 10
        /\ \A st \in DOMAIN Summary.skill_details :
              st \notin TypesIn(skill_history) =>
                  Summary.skill_details[st] =
                      [weighted_score |-> FZero, is_mastered |-> FALSE,
                       total_evaluations |-> 0, latest_score |-> NoFloat]

\* a history with an evaluation outside the taxonomy and one inside it
C5_Witness ==
    /\ Summarised
    /\ {UnknownSkill, "empathy"} \subseteq TypesIn(skill_history)
    /\ UnknownSkill \notin DOMAIN Summary.skill_details
    /\ Summary.skill_details["empathy"].total_evaluations > 0
    /\ Summary.skill_details["small_talk"].total_evaluations = 0

\* C6: mastered_skills is the number of taxonomy skills whose status is
\* mastered, skills_in_progress the number of those with at least one
\* evaluation that are not mastered, and total_skills is 10.
C6_Counts ==
    Summarised =>
        /\ Summary.mastered_skills =
              Cardinality({st \in DOMAIN Summary.skill_details :
                              Summary.skill_details[st].is_mastered})
        /\ Summary.skills_in_progress =
              Cardinality({st \in DOMAIN Summary.skill_details :
                              /\ Summary.skill_details[st].total_evaluations >= 1
                              /\ ~Summary.skill_details[st].is_mastered})
        /\ Summary.total_skills = 10

\* one skill mastered, another in progress, eight never evaluated
C6_Witness ==
    /\ Summarised
    /\ Summary.mastered_skills = 1
    /\ Summary.skills_in_progress = 1
    /\ Summary.total_skills = 10

\* C7: the summary of a history is the summary of that history without its
\* evaluations that have no skill type.
C7_NoneIgnored ==
    Summarised => Summary = get_user_skill_summary(WithoutNone(skill_history))

\* a history with an evaluation without skill type between two of one skill
C7_Witness ==
    /\ Summarised
    /\ Len(skill_history) >= 3
    /\ skill_history[1].skill_type = "empathy"
    /\ skill_history[2].skill_type = None
    /\ skill_history[3].skill_type = "empathy"
    /\ Summary.skill_details["empathy"].total_evaluations = 2

(***************************************************************************)
(* Properties of judge_conversation (SpecJudge)                            *)
(***************************************************************************)
Judged == judged # NoResult
Call == judged[1]

\* the table holds what it held before the call
NothingStored == skill_evaluations \in {<<>>, <<StoredEvaluation>>}

\* the judge model answered with one of the spellings of "no skill"
AnsweredNullSpelling ==
    /\ "output" \in DOMAIN Call.run
    /\ Call.run.output.skill_type # None
    /\ Lower(Call.run.output.skill_type) \in {"null", "none", "na", "nil", "n/a"}

\* the call came back from evaluate_recent_conversation with a judgement
\* without skill type and this reason
NullJudgement(reason) ==
    /\ ~HasRaised(Call.evaluation)
    /\ Call.evaluation.returned.skill_type = None
    /\ Call.evaluation.returned.reason = reason

\* C8 as stated: with fewer than 2 extracted turns the judgement has no skill
\* type and the reason "insufficient history", and the evaluator is not run.
C8_InsufficientHistoryAsStated ==
    Judged /\ Call.turns < 2 =>
        /\ NullJudgement(<<"insufficient history">>)
        /\ ~Call.evaluator_invoked
        /\ evaluator_calls = 0

\* C8: with fewer than 2 extracted turns (a history holding only a thinking
\* part and a tool-call part has none) the judgement has no skill type and the
\* reason "Insufficient conversation history for evaluation", and the evaluator
\* is not run.
C8_InsufficientHistory ==
    /\ Judged /\ Call.turns < 2 =>
          /\ NullJudgement(<<"Insufficient conversation history for evaluation">>)
          /\ ~Call.evaluator_invoked
          /\ evaluator_calls = 0
    /\ Judged /\ messages = <<ModelResponse(<<Part("thinking", Hi), Part("tool-call", PyNone)>>)>>
          => Call.turns = 0

\* the history of only a thinking part and a tool-call part, judged
C8_Witness ==
    /\ Judged
    /\ messages = <<ModelResponse(<<Part("thinking", Hi), Part("tool-call", PyNone)>>)>>
    /\ Call.turns = 0
    /\ NullJudgement(<<"Insufficient conversation history for evaluation">>)
    /\ evaluator_calls = 0

C10_EveryFailureConverted ==
    Judged /\ Call.evaluator_invoked /\ "error" \in DOMAIN Call.run =>
        NullJudgement(<<"Evaluation error: ">> \o Call.run.error.message)

\* the ways the tool's result reads
ToolResults(call) ==
    {<<"Skill evaluation performed.">>, <<"Error evaluating conversation.">>}
    \cup (IF HasRaised(call.evaluation) THEN {}
          ELSE {<<"Skill evaluation rejected for reason: ">> \o call.evaluation.returned.reason})

\* the task of the call was cancelled while the judge agent ran
WasCancelled(call) == call.evaluator_invoked /\ call.run = Cancelled

EvaluationStored(call) ==
    /\ ~HasRaised(call.evaluation)
    /\ call.evaluation.returned.skill_type # None
    /\ ~call.storage_fails

\* rows_after is rows_before and one row more, which carries the judgement
OneRowAppended(rows_before, rows_after, judgement) ==
    /\ Len(rows_after) = Len(rows_before) + 1
    /\ SubSeq(rows_after, 1, Len(rows_before)) = rows_before
    /\ LET row == rows_after[Len(rows_after)]
       IN  /\ row.user_id = Deps.user_id
           /\ row.session_id = Deps.session_id
           /\ row.skill_type = judgement.skill_type
           /\ row.score = judgement.score
           /\ row.reason = judgement.reason
           /\ row.confidence = judgement.confidence

\* C12: a call of judge_conversation leaves the skill_evaluations table as it
\* was when the evaluation raises, is cancelled or returns a judgement without
\* skill type, and appends exactly one row, carrying the judgement, when the
\* evaluation returns a judgement with a skill type (and the store takes it).
C12_AllOrNothingAppend ==
    [][judged = NoResult /\ judged' # NoResult =>
           IF EvaluationStored(judged'[1])
           THEN OneRowAppended(skill_evaluations, skill_evaluations',
                               judged'[1].evaluation.returned)
           ELSE skill_evaluations' = skill_evaluations]_vars

\* a judgement for "empathy" was appended to a table that held one row
C12_Witness ==
    /\ Judged
    /\ EvaluationStored(Call)
    /\ Call.run = JudgeOutput("empathy", 9)
    /\ Len(skill_evaluations) = 2
    /\ skill_evaluations[1] = StoredEvaluation
    /\ skill_evaluations[2].skill_type = "empathy"

\* C13: when db.add_skill_evaluation fails, the failure reaches the caller of
\* judge_conversation as an error, after one attempt of the insert.
C13_StorageFailurePropagates ==
    Judged /\ Call.inserts > 0 /\ Call.storage_fails =>
        /\ HasRaised(Call.outcome)
        /\ Call.outcome.raised = StorageError
        /\ Call.inserts = 1

(***************************************************************************)
(* Properties of the skill_evaluations table (SpecStore)                   *)
(***************************************************************************)
HistoryQueried == history_out # NoResult /\ history_out[1].query = "get_skill_history"
ScoresQueried == history_out # NoResult /\ history_out[1].query = "get_skill_scores"
Query == history_out[1]

\* the calls of add_skill_evaluation the query asks for, by position
InScope ==
    {i \in 1..Len(append_calls) :
        /\ append_calls[i].user_id = Query.user_id
        /\ Query.session_id # None => append_calls[i].session_id = Query.session_id}

\* the record carries what call i passed
Carries(record, i) ==
    /\ record.judgement_id = i
    /\ record.user_id = append_calls[i].user_id
    /\ record.session_id = append_calls[i].session_id
    /\ record.skill_type = append_calls[i].judgement.skill_type
    /\ record.score = append_calls[i].judgement.score
    /\ record.reason = append_calls[i].judgement.reason
    /\ record.confidence = append_calls[i].judgement.confidence

\* the caller's own timestamp is not the stored one
CallerTimestampIgnored(record, i) ==
    append_calls[i].judgement.timestamp # <<>> =>
        record.timestamp # append_calls[i].judgement.timestamp[1]

\* C14 as stated: a judgement appended and then read back with the history of
\* its user (and session) has the same skill_type, score, reason and
\* confidence and a timestamp not earlier than the append call, never the
\* caller's.
C14_TimestampNotEarlier ==
    HistoryQueried =>
        \A i \in InScope : \E j \in 1..Len(Query.result) :
            /\ Carries(Query.result[j], i)
            /\ Query.result[j].timestamp * TicksPerSecond >= append_calls[i].at
            /\ CallerTimestampIgnored(Query.result[j], i)

\* C14: a judgement appended and then read back with the history of its user
\* (and session) has the same skill_type, score, reason and confidence and the
\* timestamp the store gave it at the insert, which is the time of the insert
\* cut to whole seconds: not earlier than the second of the append call, and
\* never the timestamp the caller's judgement carried.
C14_RoundTrip ==
    HistoryQueried =>
        \A i \in InScope : \E j \in 1..Len(Query.result) :
            /\ Carries(Query.result[j], i)
            /\ Query.result[j].timestamp = append_calls[i].at \div TicksPerSecond
            /\ (Query.result[j].timestamp + 1) * TicksPerSecond > append_calls[i].at
            /\ CallerTimestampIgnored(Query.result[j], i)

\* a judgement carrying its maker's timestamp, appended half a second into
\* second 0 and read back with timestamp 0
C14_Witness ==
    /\ HistoryQueried
    /\ \E i \in InScope : \E j \in 1..Len(Query.result) :
           /\ append_calls[i].at = 1
           /\ append_calls[i].judgement = Listened
           /\ Carries(Query.result[j], i)
           /\ Query.result[j].timestamp = 0

\* the positions of the appends whose records the result returns, in its order
ReturnedIds == [j \in 1..Len(Query.result) |-> Query.result[j].judgement_id]

ExactlyTheAppended ==
    /\ Len(Query.result) = Cardinality(InScope)
    /\ {ReturnedIds[j] : j \in 1..Len(Query.result)} = InScope
    /\ \A j \in 1..Len(Query.result) : Carries(Query.result[j], ReturnedIds[j])

AscendingTimestamps ==
    \A j, k \in 1..Len(Query.result) :
        j < k => Query.result[j].timestamp <= Query.result[k].timestamp

\* C15 as stated: the history of a user (of one session when session_id is
\* given) is the records appended for it, ascending by stored timestamp, a
\* judgement appended later never before one appended earlier.
C15_AppendOrder ==
    HistoryQueried =>
        /\ ExactlyTheAppended
        /\ AscendingTimestamps
        /\ \A j, k \in 1..Len(Query.result) : j < k => ReturnedIds[j] < ReturnedIds[k]

\* C15: the history of a user (of one session when session_id is given) is
\* exactly the records appended for it, none of another user, ascending by
\* stored timestamp; a judgement appended in a later second is never before
\* one appended in an earlier second and is folded later by the aggregation
\* (judgements appended within the same second come in any order).  The
\* scores db.get_skill_scores returns are ascending by created_at too.
C15_QueryAscending ==
    /\ HistoryQueried =>
          /\ ExactlyTheAppended
          /\ AscendingTimestamps
          /\ \A j, k \in 1..Len(Query.result) :
                 (/\ j < k
                  /\ append_calls[ReturnedIds[j]].at \div TicksPerSecond
                         # append_calls[ReturnedIds[k]].at \div TicksPerSecond)
                 => ReturnedIds[j] < ReturnedIds[k]
          /\ SortedByTime(ScoresOf(Query.result, "empathy")) = ScoresOf(Query.result, "empathy")
    /\ ScoresQueried =>
          \A j, k \in 1..Len(Query.result) :
              j < k => Query.result[j][2] <= Query.result[k][2]

\* three appends, the second for another user, the third a second later than
\* the first: the history of "u1" is the first and the third, in that order
C15_Witness ==
    /\ HistoryQueried
    /\ Query.user_id = "u1"
    /\ Query.session_id = None
    /\ Len(append_calls) = 3
    /\ append_calls[2].user_id = "u2"
    /\ ReturnedIds = <<1, 3>>
    /\ Query.result[1].timestamp < Query.result[2].timestamp

(***************************************************************************)
(* Properties of ensure_session (SpecSessions)                             *)
(***************************************************************************)
\* the rows of the sessions table with this id
RowsOf(rows, session_id) == {i \in 1..Len(rows) : rows[i].id = session_id}

\* the calls that created a row: they found none and their INSERT went through
Creators(session_id) ==
    {c \in 1..Len(ensuring) :
        /\ ensuring[c].session_id = session_id
        /\ ~ensuring[c].found
        /\ ensuring[c].pc = "returned"}

\* C16: a call of ensure_session for a session id that has a row returns
\* without raising and leaves the table as it is, whatever its user_id; every
\* session id has at most one row, which never changes, and its user_id is
\* that of the one call that created it.
C16_EnsureSessionIdempotent ==
    [][/\ (Len(ensuring') > Len(ensuring) /\ ensuring'[Len(ensuring')].found) =>
              /\ ensuring'[Len(ensuring')].pc = "returned"
              /\ sessions' = sessions
       /\ \A i \in 1..Len(sessions) : i <= Len(sessions') /\ sessions'[i] = sessions[i]
       /\ \A session_id \in SessionIds :
              /\ Cardinality(RowsOf(sessions', session_id)) <= 1
              /\ Cardinality(Creators(session_id)') = Cardinality(RowsOf(sessions', session_id))
              /\ \A c \in Creators(session_id)' : \A i \in RowsOf(sessions', session_id) :
                     sessions'[i].user_id = ensuring'[c].user_id]_vars

\* "s1" was created for "u1"; a later call for "s1" with "u2" found it and
\* returned, and "s1" is still the one row of "u1"
C16_Witness ==
    /\ Len(ensuring) >= 2
    /\ ensuring[1] = [session_id |-> "s1", user_id |-> "u1", found |-> FALSE, pc |-> "returned"]
    /\ ensuring[2] = [session_id |-> "s1", user_id |-> "u2", found |-> TRUE, pc |-> "returned"]
    /\ sessions = <<[id |-> "s1", user_id |-> "u1"]>>

(***************************************************************************)
(* Properties of the messages table (SpecMessages)                         *)
(***************************************************************************)
\* the messages of the add_messages calls for a session, in call order
RECURSIVE AppendedTo(_, _)
AppendedTo(calls, session_id) ==
    IF calls = <<>> THEN <<>>
    ELSE IF calls[Len(calls)].session_id = session_id
    THEN AppendedTo(SubSeq(calls, 1, Len(calls) - 1), session_id)
         \o calls[Len(calls)].model_messages
    ELSE AppendedTo(SubSeq(calls, 1, Len(calls) - 1), session_id)

IsPrefix(short, long) ==
    Len(short) <= Len(long) /\ SubSeq(long, 1, Len(short)) = short

\* C17: after any calls of add_messages, get_messages of a session is the
\* messages appended to that session, in call order; what get_messages returns
\* for a session is a prefix of what it returns after any further step, and
\* the history a run was given is a prefix of it for some session.
C17_AppendOnlyLog ==
    [][/\ \A session_id \in SessionIds :
              /\ get_messages(session_id)' = AppendedTo(message_calls', session_id)
              /\ IsPrefix(get_messages(session_id), get_messages(session_id)')
       /\ \E session_id \in SessionIds : IsPrefix(messages', get_messages(session_id)')]_vars

\* two chunks appended to "s1" around one appended to "s2", with the history
\* read after the first still a prefix of what get_messages("s1") returns
C17_Witness ==
    /\ Len(message_calls) = 3
    /\ message_calls[1] = [session_id |-> "s1", model_messages |-> <<Asked, Answered>>]
    /\ message_calls[2].session_id = "s2"
    /\ message_calls[3] = [session_id |-> "s1", model_messages |-> <<Answered>>]
    /\ messages = <<Asked, Answered>>
    /\ get_messages("s1") = <<Asked, Answered, Answered>>

(***************************************************************************)
(* Properties of the extraction (SpecExtract)                              *)
(***************************************************************************)
Extracted == extracted # NoResult
Extraction == extracted[1]

\* every turn of a history, with no limit, under the flags of the call
AllTurns(history) ==
    convert_model_messages_to_conversation(history, <<>>, Extraction.skip_system,
                                           Extraction.skip_tool)

\* the last n records of a history of at least n records
LastRecords(history, n) == [i \in 1..n |-> history[Len(history) - n + i]]

\* C18: with a positive limit smaller than the history only the last limit
\* records are considered, whatever number of turns they hold; with a limit of
\* at least the history's length, no limit, or a non-positive recent_messages
\* given to evaluate_recent_conversation, every record is considered.
C18_LastRecordsConsidered ==
    Extracted =>
        IF Extraction.limit # <<>> /\ Extraction.limit[1] > 0
           /\ Extraction.limit[1] < Len(raw_history)
        THEN Extraction.conversation = AllTurns(LastRecords(raw_history, Extraction.limit[1]))
        ELSE Extraction.conversation = AllTurns(raw_history)

\* a limit of one record out of three, and two turns extracted from it
C18_Witness ==
    /\ Extracted
    /\ Len(raw_history) = 3
    /\ Extraction.limit = <<1>>
    /\ Len(Extraction.conversation) = 2
    /\ Len(AllTurns(raw_history)) > 2

\* the limit that reaches convert_model_messages_to_conversation
PassedLimit ==
    IF Extraction.via = "evaluate_recent_conversation"
    THEN RecentLimit(Extraction.limit[1]) ELSE Extraction.limit

\* the history with the parts of a set taken out of its messages
WithoutParts(history, dropped) ==
    [i \in DOMAIN history |->
        [history[i] EXCEPT !.parts = SelectSeq(@, LAMBDA part : part \notin dropped)]]

RECURSIVE CountParts(_, _)
CountParts(history, dropped) ==
    IF history = <<>> THEN 0
    ELSE Len(SelectSeq(Head(history).parts, LAMBDA part : part \notin dropped))
         + CountParts(Tail(history), dropped)

AllParts == UNION {{record.parts[i] : i \in DOMAIN record.parts} : record \in Records}

\* the call's result on the history without some parts
ConversationWithout(dropped) ==
    convert_model_messages_to_conversation(WithoutParts(raw_history, dropped), PassedLimit,
                                           Extraction.skip_system, Extraction.skip_tool)

TurnKinds ==
    {"user-prompt", "text"} \cup (IF Extraction.skip_system THEN {} ELSE {"system-prompt"})

NeverATurn == {part \in AllParts : part.part_kind \notin TurnKinds}

\* C19: under every combination of the flags the turns are those of the
\* user-prompt, text and (skip_system false only) system-prompt parts: taking
\* every other part out of the history (thinking, tool-call, tool-return,
\* retry-prompt, unknown kinds, and system-prompt under skip_system) leaves the
\* result as it is, there is at most one turn per remaining part, and a
\* "system" turn appears only when skip_system is false.
C19_OnlyConversationalParts ==
    Extracted =>
        /\ Extraction.conversation = ConversationWithout(NeverATurn)
        /\ Len(Extraction.conversation) <= CountParts(raw_history, NeverATurn)
        /\ \A i \in DOMAIN Extraction.conversation :
               Extraction.conversation[i].role \in
                   {"user", "assistant"} \cup (IF Extraction.skip_system THEN {} ELSE {"system"})

\* system-prompt, tool-return, thinking and tool-call parts in the history,
\* tool messages not skipped, and only the two user prompts extracted
C19_Witness ==
    /\ Extracted
    /\ raw_history = <<ModelRequest(<<Part("system-prompt", Hi), Part("user-prompt", Hi)>>),
                       ModelResponse(<<Part("thinking", Hi), Part("tool-call", PyNone)>>),
                       ModelRequest(<<Part("tool-return", Yo),
                                      Part("user-prompt", PyList(<<Hi, PyObj("ImageUrl"), Yo>>))>>)>>
    /\ Extraction.limit = <<>>
    /\ Extraction.skip_system
    /\ ~Extraction.skip_tool
    /\ Len(Extraction.conversation) = 2
    /\ \A i \in 1..2 : Extraction.conversation[i].role = "user"

AllWhitespace(chars) == \A i \in DOMAIN chars : chars[i] \in Whitespace

\* content that is missing, empty or whitespace-only: None, a str of
\* whitespace, or mixed content whose str fragments (if any) are whitespace
Contentless(content) ==
    \/ IsNone(content)
    \/ IsStr(content) /\ AllWhitespace(content.str)
    \/ /\ "list" \in DOMAIN content
       /\ \A i \in DOMAIN content.list :
              IsStr(content.list[i]) => AllWhitespace(content.list[i].str)

NoContent == {part \in AllParts : Contentless(part.content)}

\* C20: every extracted turn has a character other than whitespace in its
\* content, and the parts whose content is missing, empty or whitespace-only
\* (a user-prompt of mixed content without a str fragment included) give no
\* turn: taking them out of the history leaves the result as it is.
C20_TurnsHaveContent ==
    Extracted =>
        /\ \A i \in DOMAIN Extraction.conversation :
               ~AllWhitespace(Extraction.conversation[i].content)
        /\ Extraction.conversation = ConversationWithout(NoContent)

\* a whitespace-only user prompt and one holding only an image give no turn;
\* the one with two str fragments around an image gives "hi yo"
C20_Witness ==
    /\ Extracted
    /\ raw_history = <<ModelRequest(<<Part("user-prompt", Blank)>>),
                       ModelRequest(<<Part("retry-prompt", Hi),
                                      Part("user-prompt", PyList(<<PyObj("ImageUrl")>>))>>),
                       ModelRequest(<<Part("tool-return", Yo),
                                      Part("user-prompt", PyList(<<Hi, PyObj("ImageUrl"), Yo>>))>>)>>
    /\ Extraction.limit = <<>>
    /\ Len(Extraction.conversation) = 1
    /\ Extraction.conversation[1].content = <<"h", "i", " ", "y", "o">>

\* the records the call considers (its limit applied by record)
Considered ==
    IF PassedLimit # <<>> /\ PassedLimit[1] < Len(raw_history)
    THEN LastRecords(raw_history, PassedLimit[1])
    ELSE raw_history

\* what the call's flags make of the j-th part of a record taken alone
TurnOf(record, j) == AllTurns(<<[record EXCEPT !.parts = <<@[j]>>]>>)

\* the turns of the parts of a record from the j-th on, in part order
RECURSIVE TurnsFromPart(_, _)
TurnsFromPart(record, j) ==
    IF j > Len(record.parts) THEN <<>>
    ELSE TurnOf(record, j) \o TurnsFromPart(record, j + 1)

\* the turns of every part, by record and then by part position
RECURSIVE TurnsInOrder(_)
TurnsInOrder(history) ==
    IF history = <<>> THEN <<>>
    ELSE TurnsFromPart(Head(history), 1) \o TurnsInOrder(Tail(history))

\* C21: each part gives at most one turn, and the result is these turns laid
\* end to end by record and, within a record, by part position: a turn that
\* precedes another comes from an earlier record or an earlier part.
C21_InputOrder ==
    Extracted =>
        /\ \A i \in DOMAIN Considered : \A j \in DOMAIN Considered[i].parts :
               Len(TurnOf(Considered[i], j)) <= 1
        /\ Extraction.conversation = TurnsInOrder(Considered)

\* system and user turns of the first record in part order, then the
\* assistant's, then the user's
C21_Witness ==
    /\ Extracted
    /\ raw_history = <<ModelRequest(<<Part("system-prompt", Hi), Part("user-prompt", Hi)>>),
                       ModelResponse(<<Part("text", Yo)>>),
                       ModelRequest(<<Part("tool-return", Yo),
                                      Part("user-prompt", PyList(<<Hi, PyObj("ImageUrl"), Yo>>))>>)>>
    /\ Extraction.limit = <<>>
    /\ ~Extraction.skip_system
    /\ Len(Extraction.conversation) = 4
    /\ [i \in 1..4 |-> Extraction.conversation[i].role]
           = <<"system", "user", "assistant", "user">>

KindRole(part_kind) ==
    CASE part_kind = "system-prompt" -> "system"
      [] part_kind = "user-prompt" -> "user"
      [] part_kind = "text" -> "assistant"
      [] OTHER -> "no role"

\* C23: the turn of a part has the role of the part's kind (system-prompt:
\* system, user-prompt: user, text: assistant) in a request and in a response
\* alike, a record that is neither gives no turn, and the result is made of
\* these turns.
C23_RoleByPartKind ==
    Extracted =>
        /\ \A i \in DOMAIN Considered :
               /\ \A j \in DOMAIN Considered[i].parts :
                      \A k \in DOMAIN TurnOf(Considered[i], j) :
                          TurnOf(Considered[i], j)[k].role
                              = KindRole(Considered[i].parts[j].part_kind)
               /\ Considered[i].kind \notin {"request", "response"}
                      => TurnsFromPart(Considered[i], 1) = <<>>
        /\ Extraction.conversation = TurnsInOrder(Considered)

\* a text part in a request, a user-prompt and a system-prompt part in a
\* response, and a record of another type that gives nothing
C23_Witness ==
    /\ Extracted
    /\ raw_history = <<ModelRequest(<<Part("text", Yo), Part("user-prompt", Hi)>>),
                       OtherMessage(<<Part("user-prompt", Hi), Part("text", Yo)>>),
                       ModelResponse(<<Part("user-prompt", Hi), Part("system-prompt", Yo)>>)>>
    /\ Extraction.limit = <<>>
    /\ ~Extraction.skip_system
    /\ [i \in DOMAIN Extraction.conversation |-> Extraction.conversation[i].role]
           = <<"assistant", "user", "user", "system">>

(***************************************************************************)
(* Properties of the summary over the table (SpecAggregate)                *)
(***************************************************************************)
\* the number of judgements of a skill appended so far for a user
AppendedFor(user_id, skill_type) ==
    Cardinality({i \in DOMAIN append_calls :
                    /\ append_calls[i].user_id = user_id
                    /\ append_calls[i].judgement.skill_type = skill_type})

\* C24: a summary is computed from the user's judgements in the table at the
\* call: it is the summary of a history the table gives for that user then, it
\* counts every judgement appended for the user before the call and none of
\* another user, and the call leaves the judgement table and the messages
\* table as they were.
C24_SummaryNeverStale ==
    [][summary_out' # NoResult /\ summary_out = NoResult =>
           /\ \E history \in get_skill_history(summary_out'[2], None) :
                  summary_out'[1] = get_user_skill_summary(history)
           /\ \A n \in DOMAIN SOCIAL_SKILLS :
                  summary_out'[1].skill_details[SOCIAL_SKILLS[n]].total_evaluations
                      = AppendedFor(summary_out'[2], SOCIAL_SKILLS[n])
           /\ UNCHANGED <<skill_evaluations, message_rows>>]_vars

\* the summary of "u1" after a judgement for "u2" and then one for "u1"
C24_Witness ==
    /\ summary_out # NoResult
    /\ summary_out[2] = "u1"
    /\ Len(append_calls) = 2
    /\ append_calls[1].user_id = "u2"
    /\ append_calls[2].user_id = "u1"
    /\ summary_out[1].skill_details["empathy"].total_evaluations = 1

(***************************************************************************)
(* Properties of concurrent first use (SpecSessions)                       *)
(***************************************************************************)
\* the calls for a session that found no row and have run their INSERT
Raced(session_id) ==
    {c \in 1..Len(ensuring) :
        /\ ensuring[c].session_id = session_id
        /\ ~ensuring[c].found
        /\ ensuring[c].pc # "insert"}

\* C28 as stated: two calls for the same new session id that both passed the
\* existence check before either INSERT both return, and one row exists.
C28_BothComplete ==
    \A session_id \in SessionIds :
        Cardinality(Raced(session_id)) >= 2 =>
            /\ \A c \in Raced(session_id) : ensuring[c].pc = "returned"
            /\ Cardinality(RowsOf(sessions, session_id)) = 1

(***************************************************************************)
(* Properties of concurrent chat requests (SpecChat)                       *)
(***************************************************************************)
\* what is stored for a session: its messages and its judgements
JudgementsOf(session_id) ==
    SelectSeq(skill_evaluations, LAMBDA row : row.session_id = session_id)

StoredFor(session_id) == <<get_messages(session_id), JudgementsOf(session_id)>>

\* C25: under every interleaving of the requests, a step changes what is
\* stored for a session only if it is a step of a request for that session,
\* and no request is ended by a conflict with a request for another session:
\* a request that raises on a uniqueness conflict has a request of its own
\* session to conflict with, as it would when its session's requests run alone.
C25_SessionsIndependent ==
    [][/\ \A session_id \in SessionIds :
              StoredFor(session_id)' # StoredFor(session_id) =>
                  \E r \in 1..Len(requests') :
                      /\ requests'[r].session_id = session_id
                      /\ r <= Len(requests) => requests'[r] # requests[r]
       /\ \A r \in 1..Len(requests') :
              requests'[r].pc = "raised" =>
                  \E q \in 1..Len(requests') :
                      q # r /\ requests'[q].session_id = requests'[r].session_id]_vars

\* C26: a request has put its new messages into the table exactly once when
\* its stream has run to the end and not at all before or when the run or the
\* stream failed, whether or not a judgement of the run was stored; the table
\* holds one row per completed request.
C26_MessagesOnceAfterStream ==
    /\ \A r \in 1..Len(requests) :
           requests[r].stored = IF requests[r].pc = "done" THEN 1 ELSE 0
    /\ Len(message_rows) = Cardinality({r \in 1..Len(requests) : requests[r].pc = "done"})
    /\ Len(message_calls) = Len(message_rows)

\* one request completed and stored its messages; the other stored a
\* judgement and then failed, and stored no message
C26_Witness ==
    /\ Len(requests) = 2
    /\ requests[1].pc = "done"
    /\ requests[2].pc = "failed"
    /\ requests[2].judgements = 1
    /\ requests[2].session_id = "s2"
    /\ get_messages("s2") = <<>>
    /\ get_messages("s1") = NewMessages
    /\ JudgementsOf("s2") # <<>>

\* C27: every row of skill_evaluations has the user_id of the sessions row
\* that its session_id names.
C27_FiledUnderOwner ==
    \A i \in 1..Len(skill_evaluations) : \A j \in 1..Len(sessions) :
        sessions[j].id = skill_evaluations[i].session_id =>
            sessions[j].user_id = skill_evaluations[i].user_id
====
